---------------------------- MODULE Spec2Model ----------------------------
(***************************************************************************)
(* A model of the donut-investigation dataset tools:                       *)
(*                                                                         *)
(*   Spec     src/dataset/create_train_test_validation.py and              *)
(*            src/dataset/create_sequenced_train_test_validation.py:       *)
(*            create_metadata_files / create_sequenced_metadata_files.     *)
(*   RerunSpec  the same, run twice in a row over the same directory.      *)
(*   EncSpec  convert_json_to_donut_sequence.                              *)
(*   MapSpec  map_to_key_value_pairs / map_key_value_pairs.                *)
(*   FlatSpec save_individual_json_files / save_key_value_pairs_to_json.   *)
(*   ExtSpec  extract_data_from_json / extract_specific_png_data.          *)
(*   RszSpec  resize_image.                                                *)
(*   CliSpec  src/infer_single.py, run as a script.                        *)
(*   CopySpec copy_images_to_splits, after the metadata creation or alone. *)
(*                                                                         *)
(* Python strings are sequences of one-character strings, Python dicts are *)
(* sequences of <<key, value>> pairs in insertion order.                   *)
(***************************************************************************)
EXTENDS Integers, Sequences, FiniteSets, TLC

VARIABLES
    \* ---- the splitter's inputs and environment
    listing,        \* what os.listdir(jsons_folder_path) returns, in its order
    train_ratio,    \* numerator of train_ratio over RatioDen
    val_ratio,      \* numerator of val_ratio over RatioDen
    test_ratio,     \* numerator of test_ratio over RatioDen
    variant,        \* "raw" (create_metadata_files) or "sequenced"
    file_status,    \* per JSON file: "ok", "bad_json" or "no_image"
    \* ---- the splitter's process state
    run,            \* 1 or 2: which run over the same input this is
    pc,             \* position in the function
    rng,            \* the process-global generator of module random
    json_files, train_count, val_count, test_count,
    train_files, val_files, test_files,
    di,             \* index into datasets (1 train, 2 validation, 3 test)
    fi,             \* index of the next file of the current file_list
    processed_count,
    metadata,       \* the three metadata.jsonl files on disk
    visited,        \* json files the loop body was entered for, in order
    warned_missing, \* files a "Warning: Image ... not found" was printed for
    warned_error,   \* files an "Error processing ..." was printed for
    result,         \* the returned dict
    prev,           \* what the first run computed (kept for comparison)
    \* ---- convert_json_to_donut_sequence
    enc_pc, task_name, ground_truth_parse, enc_i, donut_sequence,
    \* ---- map_to_key_value_pairs
    map_pc, texts, labels, relations, id_to_text,
    headers, questions, answers, others,
    rel_i, seen_pairs, key_value_pairs, emitted_at,
    \* ---- save_individual_json_files
    flat_pc, flat_pairs, flat_i, png_key_value_pairs, inserted_as,
    \* ---- extract_data_from_json
    ext_pc,
    data,           \* the loaded JSON document: <<png_filename, annotations>> items
    img_i,          \* index of the current item of data.items()
    ann_i,          \* index of the next annotation of the current image
    extracted_data,
    \* ---- resize_image
    rsz_pc, orig_width, orig_height, target_width, target_height,
    scale_factor,   \* the scaling factor, as <<numerator, denominator>>
    new_width, new_height, pad_x, pad_y,
    padded_img,     \* the canvas: its size and the box the resized image covers
    \* ---- infer_single.py run as a script
    cli_pc,
    cli_args,       \* the parsed command line
    cli_env,        \* the step at which the environment fails, if any
    cli_trace,      \* the work done so far, in order
    cli_out,        \* the file at --output_path
    exit_code,
    \* ---- copy_images_to_splits
    copy_pc,
    images,         \* images_folder_path: per image name, what is there
    copy_di,        \* index into datasets (1 train, 2 validation, 3 test)
    copy_li,        \* index of the next line of the current metadata file
    written,        \* per split directory, the images saved into it
    copy_trace      \* what the loops met, in order

splitVars == <<listing, train_ratio, val_ratio, test_ratio, variant, file_status,
               run, pc, rng, json_files, train_count, val_count, test_count,
               train_files, val_files, test_files, di, fi, processed_count,
               metadata, visited, warned_missing, warned_error, result, prev>>
encVars == <<enc_pc, task_name, ground_truth_parse, enc_i, donut_sequence>>
mapVars == <<map_pc, texts, labels, relations, id_to_text,
             headers, questions, answers, others,
             rel_i, seen_pairs, key_value_pairs, emitted_at>>
flatVars == <<flat_pc, flat_pairs, flat_i, png_key_value_pairs, inserted_as>>
extVars == <<ext_pc, data, img_i, ann_i, extracted_data>>
rszVars == <<rsz_pc, orig_width, orig_height, target_width, target_height,
             scale_factor, new_width, new_height, pad_x, pad_y, padded_img>>
cliVars == <<cli_pc, cli_args, cli_env, cli_trace, cli_out, exit_code>>
copyVars == <<copy_pc, images, copy_di, copy_li, written, copy_trace>>
vars == <<splitVars, encVars, mapVars, flatVars, extVars, rszVars, cliVars, copyVars>>

-----------------------------------------------------------------------------
(* Bounds of the model. *)

\* at most this many entries in the JSON directory
MaxFiles == 3
\* at most this many key-value pairs in one flat map given to the encoder
MaxItems == 2
\* at most this many annotation records in one extracted page
MaxRec == 2
\* at most this many relations in one extracted page
MaxRel == 2
\* at most this many KeyValuePairs handed to the flattener
MaxPairs == 3

-----------------------------------------------------------------------------
(* Sequences and Python strings. *)

Range(s) == {s[i] : i \in 1..Len(s)}

Injective(s) == \A i, j \in 1..Len(s) : s[i] = s[j] => i = j

SeqsUpTo(S, n) == UNION {[1..k -> S] : k \in 0..n}

Min(a, b) == IF a <= b THEN a ELSE b
Max(a, b) == IF a >= b THEN a ELSE b

\* Python's s[a:b] for 0 <= a, 0 <= b: both ends clamped to len(s)
Slice(s, a, b) ==
    LET lo == Min(a, Len(s))
        hi == Min(b, Len(s))
    IN  IF hi <= lo THEN <<>> ELSE SubSeq(s, lo + 1, hi)

\* Python's s[a:]
SliceFrom(s, a) == Slice(s, a, Len(s))


-----------------------------------------------------------------------------
(* Module random: the Mersenne Twister behind random.seed / random.shuffle. *)
(* The generator's state is the seed it was initialised from and how many   *)
(* 32-bit words it has produced since.  MTWords is the start of its output  *)
(* for the seeds the model uses (CPython, init_by_array of the seed); each  *)
(* word is kept as its top WordBits bits, which is all getrandbits(k) reads *)
(* for k <= WordBits, that is for lists of fewer than 2^16 elements.        *)

\* the seed both splitters pass to random.seed
SEED == 123

\* seeds standing for the operating-system entropy a fresh process starts from
EntropySeeds == {0, 1}

MTWords(seed) ==
    CASE seed = 123 ->
           <<3431, 17542, 5713, 50394, 26688, 17468, 7058, 54952,
             59060, 57332, 2500, 24846, 35140, 36852, 21770, 22334>>
      [] seed = 0 ->
           <<55340, 25247, 49673, 58343, 27562, 2653, 16968, 63272,
             33506, 31845, 26537, 60177, 51367, 54385, 19877, 63425>>
      [] seed = 1 ->
           <<8805, 37303, 55537, 52577, 50054, 4135, 16716, 7727,
             32468, 49870, 29457, 30949, 42702, 24878, 51689, 13759>>

\* how many leading bits of each 32-bit word MTWords keeps
WordBits == 16

RECURSIVE Pow2(_)
Pow2(k) == IF k = 0 THEN 1 ELSE 2 * Pow2(k - 1)

\* int.bit_length
RECURSIVE BitLength(_)
BitLength(n) == IF n = 0 THEN 0 ELSE 1 + BitLength(n \div 2)

\* a generator that random.seed left alone (the mutant of Seeded)
NotSeeded(g) == g

\* random.seed(123): the generator restarts from the seed's state
Seeded(g) == [seed |-> SEED, pos |-> 0]

\* Random.getrandbits(k), k <= 32: the top k bits of the next word
GetRandBits(g, k) ==
    [val |-> MTWords(g.seed)[g.pos + 1] \div Pow2(WordBits - k),
     rng |-> [g EXCEPT !.pos = g.pos + 1]]

\* Random._randbelow_with_getrandbits(n): draw until the value is below n
RECURSIVE RandBelow(_, _)
RandBelow(g, n) ==
    LET d == GetRandBits(g, BitLength(n))
    IN  IF d.val < n THEN d ELSE RandBelow(d.rng, n)

Swap(x, i, j) == [x EXCEPT ![i] = x[j], ![j] = x[i]]

\* Random.shuffle(x): for i in reversed(range(1, len(x))):
\*     j = randbelow(i + 1); x[i], x[j] = x[j], x[i]
\* (i below is the 1-based position, so it runs from Len(x) down to 2)
RECURSIVE ShuffleFrom(_, _, _)
ShuffleFrom(x, g, i) ==
    IF i < 2 THEN [list |-> x, rng |-> g]
    ELSE LET d == RandBelow(g, i)
         IN  ShuffleFrom(Swap(x, i, d.val + 1), d.rng, i - 1)

Shuffle(x, g) == ShuffleFrom(x, g, Len(x))

-----------------------------------------------------------------------------
(* Python values and strings.  A JSON value is tagged with its Python type. *)

StrVal(s) == [t |-> "str", s |-> s]
IntVal(n) == [t |-> "int", n |-> n]
NoneVal == [t |-> "None"]

\* what str.strip() removes
Whitespace == {" ", "\t", "\n"}

Digit(d) == <<"0", "1", "2", "3", "4", "5", "6", "7", "8", "9">>[d + 1]

\* str(n) of an int n >= 0
RECURSIVE Decimal(_)
Decimal(n) == IF n < 10 THEN <<Digit(n)>> ELSE Decimal(n \div 10) \o <<Digit(n % 10)>>

\* str(v)
PyStr(v) ==
    CASE v.t = "str" -> v.s
      [] v.t = "int" -> IF v.n < 0 THEN <<"-">> \o Decimal(0 - v.n) ELSE Decimal(v.n)
      [] v.t = "None" -> <<"N", "o", "n", "e">>

RECURSIVE LStrip(_)
LStrip(s) == IF s # <<>> /\ Head(s) \in Whitespace THEN LStrip(Tail(s)) ELSE s

RECURSIVE RStrip(_)
RStrip(s) ==
    IF s # <<>> /\ s[Len(s)] \in Whitespace THEN RStrip(SubSeq(s, 1, Len(s) - 1)) ELSE s

\* a strip that forgets the trailing side
StripLeftOnly(s) == LStrip(s)

\* str.strip()
Strip(s) == RStrip(LStrip(s))

-----------------------------------------------------------------------------
(* convert_json_to_donut_sequence *)

\* f"<s_{clean_key}>{clean_value}</s_{clean_key}>"
DonutItem(key, value) ==
    LET clean_key == Strip(PyStr(key))
        clean_value == Strip(PyStr(value))
    IN  <<"<", "s", "_">> \o clean_key \o <<">">> \o clean_value
            \o <<"<", "/", "s", "_">> \o clean_key \o <<">">>

\* the loop over ground_truth_parse.items(), from item i on
RECURSIVE DonutLoop(_, _, _)
DonutLoop(seq, items, i) ==
    IF i > Len(items) THEN seq
    ELSE DonutLoop(seq \o DonutItem(items[i][1], items[i][2]), items, i + 1)

ConvertJsonToDonutSequence(parse, task) ==
    LET start == <<"<", "s", "_">> \o task \o <<">">>
    IN  DonutLoop(start, parse, 1) \o <<"<", "/", "s", "_">> \o task \o <<">">>

-----------------------------------------------------------------------------
(* create_metadata_files / create_sequenced_metadata_files: inputs *)

\* a directory entry is a stem and an extension: "7.json" is [stem 7, ext ".json"]
JsonName(b) == [stem |-> b, ext |-> ".json"]
DirNames == {JsonName(b) : b \in 1..MaxFiles} \cup {[stem |-> 1, ext |-> ".txt"]}

\* filename.endswith(".json")
EndsWithJson(n) == n.ext = ".json"

\* a name with a dot part before its extension: "1.png.json" is
\* [stem 1, mid ".png", ext ".json"]
MidName(b, m, e) == [stem |-> b, mid |-> m, ext |-> e]

\* json_filename.replace('.json', '.png'): every ".json" of the name becomes
\* ".png", not only the one the name ends with
ReplaceJsonPng(n) ==
    LET part(e) == IF e = ".json" THEN ".png" ELSE e
    IN  IF "mid" \in DOMAIN n
        THEN MidName(n.stem, part(n.mid), part(n.ext))
        ELSE [n EXCEPT !.ext = part(@)]

\* every name a directory can hold, in a fixed order
AllNames == [i \in 1..MaxFiles |-> JsonName(i)] \o <<[stem |-> 1, ext |-> ".txt"]>>

Reverse(s) == [i \in 1..Len(s) |-> s[Len(s) + 1 - i]]

\* what os.listdir can return: the entries of a directory of at most MaxFiles
\* names, each once, in one of two orders
ListingsOf(names) ==
    LET InDir(D) == SelectSeq(names, LAMBDA n : n \in D)
        Dirs == {D \in SUBSET Range(names) : Cardinality(D) <= MaxFiles}
    IN  {InDir(D) : D \in Dirs} \cup {Reverse(InDir(D)) : D \in Dirs}

Listings == ListingsOf(AllNames)

\* ratios are numerators over RatioDen: 3 is the default 0.15, 14 the default 0.7
RatioDen == 20
Ratios == {3, 10, 14}
TestRatios == {3, 14}

\* what the loop body meets for a JSON file: json.load raising, the image
\* missing from images_folder_path, or neither
Statuses == {"ok", "bad_json", "no_image"}

Variants == {"raw", "sequenced"}

DatasetNames == <<"train", "validation", "test">>

\* the JSON document in a file: {"k": <stem>}
FileContent(n) == << <<StrVal(<<"k">>), IntVal(n.stem)>> >>

\* json.dumps(v): the text is kept as the value it encodes
JsonDumps(v) == [json |-> v]

NoResult == [returned |-> FALSE]
NoPrev == [ran |-> FALSE]
AbsentFile == [exists |-> FALSE, lines |-> <<>>]
EmptyFile == [exists |-> TRUE, lines |-> <<>>]

-----------------------------------------------------------------------------
(* create_metadata_files / create_sequenced_metadata_files: steps *)

\* a product rounded to the nearest integer instead of truncated
RoundOfProduct(n, num) == (2 * n * num + RatioDen) \div (2 * RatioDen)

\* int(total_files * ratio); exact for total_files < 90 with these ratios
IntOfProduct(n, num) == (n * num) \div RatioDen

\* test_count = total_files - train_count - val_count
TestCount(total, tc, vc) == total - tc - vc

\* slices that overlap by one file
OverlappingSplit(files, tc, vc) ==
    [train |-> Slice(files, 0, tc),
     val   |-> Slice(files, Max(tc - 1, 0), tc + vc),
     test  |-> SliceFrom(files, tc + vc)]

\* slices that leave out the file after the training files
GappedSplit(files, tc, vc) ==
    [train |-> Slice(files, 0, tc),
     val   |-> Slice(files, tc + 1, tc + vc),
     test  |-> SliceFrom(files, tc + vc)]

\* json_files[:train_count], [train_count:train_count + val_count], [train_count + val_count:]
SplitLists(files, tc, vc) ==
    [train |-> Slice(files, 0, tc),
     val   |-> Slice(files, tc, tc + vc),
     test  |-> SliceFrom(files, tc + vc)]

FileList(d) == <<train_files, val_files, test_files>>[d]

\* the metadata entry of one image
MetadataEntry(json_filename) ==
    LET image_filename == ReplaceJsonPng(json_filename)
        ground_truth_parse_ == FileContent(json_filename)
    IN  [file_name |-> image_filename,
         ground_truth |->
            IF variant = "raw"
            THEN JsonDumps([gt_parse |-> ground_truth_parse_])
            ELSE JsonDumps([gt_parse |-> [text_sequence |->
                    ConvertJsonToDonutSequence(ground_truth_parse_,
                                               <<"S", "R", "F", "U", "N", "D">>)]])]

\* an exception that leaves the loop
PropagateException == "raise"

\* except Exception as e: print(...); continue
ExceptionPolicy == "continue"

\* an image check that always finds the image
ImageAlwaysFound(f) == FALSE

\* not os.path.exists(image_path)
ImageMissing(f) == file_status[f] = "no_image"

SplitInitOn(listings) ==
    /\ listing \in listings
    /\ train_ratio \in Ratios
    /\ val_ratio \in Ratios
    /\ test_ratio \in TestRatios
    /\ variant \in Variants
    /\ file_status \in [{n \in Range(listing) : EndsWithJson(n)} -> Statuses]
    /\ run = 1
    /\ pc = "start"
    /\ rng \in {[seed |-> e, pos |-> 0] : e \in EntropySeeds}
    /\ json_files = <<>>
    /\ train_count = 0 /\ val_count = 0 /\ test_count = 0
    /\ train_files = <<>> /\ val_files = <<>> /\ test_files = <<>>
    /\ di = 0 /\ fi = 0 /\ processed_count = 0
    /\ metadata = [d \in 1..3 |-> AbsentFile]
    /\ visited = <<>>
    /\ warned_missing = {} /\ warned_error = {}
    /\ result = NoResult
    /\ prev = NoPrev

SplitInit == SplitInitOn(Listings)

splitInputs == <<listing, train_ratio, val_ratio, test_ratio, variant, file_status>>

\* os.makedirs(...); json_files = [filename for filename in os.listdir(...) if ...]
ListDir ==
    /\ pc = "start"
    /\ json_files' = SelectSeq(listing, EndsWithJson)
    /\ pc' = "listed"
    /\ UNCHANGED <<splitInputs, run, rng, train_count, val_count, test_count,
                   train_files, val_files, test_files, di, fi, processed_count,
                   metadata, visited, warned_missing, warned_error, result, prev>>
    /\ UNCHANGED <<encVars, mapVars, flatVars, extVars, rszVars, cliVars, copyVars>>

\* random.seed(123); random.shuffle(json_files)
ShuffleFiles ==
    /\ pc = "listed"
    /\ LET r == Shuffle(json_files, Seeded(rng))
       IN  /\ json_files' = r.list
           /\ rng' = r.rng
    /\ pc' = "shuffled"
    /\ UNCHANGED <<splitInputs, run, train_count, val_count, test_count,
                   train_files, val_files, test_files, di, fi, processed_count,
                   metadata, visited, warned_missing, warned_error, result, prev>>
    /\ UNCHANGED <<encVars, mapVars, flatVars, extVars, rszVars, cliVars, copyVars>>

\* the split indices and the three slices
SplitFiles ==
    /\ pc = "shuffled"
    /\ LET total_files == Len(json_files)
           tc == IntOfProduct(total_files, train_ratio)
           vc == IntOfProduct(total_files, val_ratio)
           lists == SplitLists(json_files, tc, vc)
       IN  /\ train_count' = tc
           /\ val_count' = vc
           /\ test_count' = TestCount(total_files, tc, vc)
           /\ train_files' = lists.train
           /\ val_files' = lists.val
           /\ test_files' = lists.test
    /\ pc' = "open"
    /\ UNCHANGED <<splitInputs, run, rng, json_files, di, fi, processed_count,
                   metadata, visited, warned_missing, warned_error, result, prev>>
    /\ UNCHANGED <<encVars, mapVars, flatVars, extVars, rszVars, cliVars, copyVars>>

\* a loop that shuffles the list again before it opens each metadata file
OpenMetadataReshuffling ==
    /\ \/ pc = "open"
       \/ pc = "files" /\ fi > Len(FileList(di)) /\ di < 3
    /\ LET r == Shuffle(json_files, Seeded(rng))
       IN  /\ json_files' = r.list
           /\ rng' = r.rng
    /\ di' = IF pc = "open" THEN 1 ELSE di + 1
    /\ metadata' = [metadata EXCEPT ![di'] = EmptyFile]
    /\ fi' = 1
    /\ processed_count' = 0
    /\ pc' = "files"
    /\ UNCHANGED <<splitInputs, run, train_count, val_count,
                   test_count, train_files, val_files, test_files,
                   visited, warned_missing, warned_error, result, prev>>
    /\ UNCHANGED <<encVars, mapVars, flatVars, extVars, rszVars, cliVars, copyVars>>

\* for dataset_name, file_list in datasets: with open(metadata_path, 'w') as f:
\* the first dataset after the split, the next one when a file_list is exhausted
OpenMetadata ==
    /\ \/ pc = "open"
       \/ pc = "files" /\ fi > Len(FileList(di)) /\ di < 3
    /\ di' = IF pc = "open" THEN 1 ELSE di + 1
    /\ metadata' = [metadata EXCEPT ![di'] = EmptyFile]
    /\ fi' = 1
    /\ processed_count' = 0
    /\ pc' = "files"
    /\ UNCHANGED <<splitInputs, run, rng, json_files, train_count, val_count,
                   test_count, train_files, val_files, test_files,
                   visited, warned_missing, warned_error, result, prev>>
    /\ UNCHANGED <<encVars, mapVars, flatVars, extVars, rszVars, cliVars, copyVars>>

\* one iteration of: for json_filename in file_list
ProcessFile ==
    /\ pc = "files"
    /\ fi <= Len(FileList(di))
    /\ LET json_filename == FileList(di)[fi]
       IN  /\ visited' = Append(visited, json_filename)
           /\ IF file_status[json_filename] = "bad_json"
              THEN \* json.load raises inside the try
                   /\ warned_error' = warned_error \cup {json_filename}
                   /\ pc' = IF ExceptionPolicy = "continue" THEN "files" ELSE "aborted"
                   /\ UNCHANGED <<metadata, processed_count, warned_missing>>
              ELSE IF ImageMissing(json_filename)
              THEN /\ warned_missing' = warned_missing \cup {json_filename}
                   /\ UNCHANGED <<metadata, processed_count, warned_error, pc>>
              ELSE /\ metadata' = [metadata EXCEPT ![di].lines =
                                     Append(@, MetadataEntry(json_filename))]
                   /\ processed_count' = processed_count + 1
                   /\ UNCHANGED <<warned_missing, warned_error, pc>>
    /\ fi' = fi + 1
    /\ UNCHANGED <<splitInputs, run, rng, json_files, train_count, val_count,
                   test_count, train_files, val_files, test_files, di, result, prev>>
    /\ UNCHANGED <<encVars, mapVars, flatVars, extVars, rszVars, cliVars, copyVars>>

\* return {"train_count": len(train_files), ...}
Return ==
    /\ pc = "files"
    /\ fi > Len(FileList(di))
    /\ di = 3
    /\ result' = [returned |-> TRUE,
                  train_count |-> Len(train_files),
                  validation_count |-> Len(val_files),
                  test_count |-> Len(test_files),
                  total_count |-> Len(json_files)]
    /\ pc' = "done"
    /\ UNCHANGED <<splitInputs, run, rng, json_files, train_count, val_count,
                   test_count, train_files, val_files, test_files, di, fi,
                   processed_count, metadata, visited, warned_missing,
                   warned_error, prev>>
    /\ UNCHANGED <<encVars, mapVars, flatVars, extVars, rszVars, cliVars, copyVars>>

\* the script is started again on the same directories: a new process, whose
\* generator starts from fresh entropy; the files written by the first run stay
Rerun ==
    /\ pc = "done"
    /\ run = 1
    /\ run' = 2
    /\ prev' = [ran |-> TRUE, train_files |-> train_files, val_files |-> val_files,
                test_files |-> test_files, result |-> result]
    /\ rng' \in {[seed |-> e, pos |-> 0] : e \in EntropySeeds}
    /\ pc' = "start"
    /\ json_files' = <<>>
    /\ train_count' = 0 /\ val_count' = 0 /\ test_count' = 0
    /\ train_files' = <<>> /\ val_files' = <<>> /\ test_files' = <<>>
    /\ di' = 0 /\ fi' = 0 /\ processed_count' = 0
    /\ visited' = <<>>
    /\ warned_missing' = {} /\ warned_error' = {}
    /\ result' = NoResult
    /\ UNCHANGED <<splitInputs, metadata>>
    /\ UNCHANGED <<encVars, mapVars, flatVars, extVars, rszVars, cliVars, copyVars>>

SplitNext == ListDir \/ ShuffleFiles \/ SplitFiles \/ OpenMetadata \/ ProcessFile
                \/ Return

-----------------------------------------------------------------------------
(* convert_json_to_donut_sequence, statement by statement *)

TaskNames == {<<"T">>, <<"S", "R", "F", "U", "N", "D">>}

\* keys of a JSON object are strings; some carry whitespace at their ends
EncKeys == {StrVal(<<"a">>), StrVal(<<"b">>), StrVal(<<" ", "a">>),
            StrVal(<<"b", "\n">>)}

EncValues == {StrVal(<<"1">>), StrVal(<<"2">>), StrVal(<<" ", "1", " ", "2", "\t">>),
              IntVal(12), NoneVal}

\* a dict as json.load builds it: items in insertion order, keys distinct
FlatMaps ==
    {m \in SeqsUpTo(EncKeys \X EncValues, MaxItems) :
        \A i, j \in 1..Len(m) : m[i][1] = m[j][1] => i = j}

EncInit ==
    /\ enc_pc = "call"
    /\ task_name \in TaskNames
    /\ ground_truth_parse \in FlatMaps
    /\ enc_i = 0
    /\ donut_sequence = <<>>

\* donut_sequence = f"<s_{task_name}>"
EncStart ==
    /\ enc_pc = "call"
    /\ donut_sequence' = <<"<", "s", "_">> \o task_name \o <<">">>
    /\ enc_i' = 1
    /\ enc_pc' = "loop"
    /\ UNCHANGED <<task_name, ground_truth_parse>>
    /\ UNCHANGED <<splitVars, mapVars, flatVars, extVars, rszVars, cliVars, copyVars>>

\* one iteration of: for key, value in ground_truth_parse.items()
EncItem ==
    /\ enc_pc = "loop"
    /\ enc_i <= Len(ground_truth_parse)
    /\ donut_sequence' = donut_sequence \o
          DonutItem(ground_truth_parse[enc_i][1], ground_truth_parse[enc_i][2])
    /\ enc_i' = enc_i + 1
    /\ UNCHANGED <<enc_pc, task_name, ground_truth_parse>>
    /\ UNCHANGED <<splitVars, mapVars, flatVars, extVars, rszVars, cliVars, copyVars>>

\* donut_sequence += f"</s_{task_name}>"; return donut_sequence
EncReturn ==
    /\ enc_pc = "loop"
    /\ enc_i > Len(ground_truth_parse)
    /\ donut_sequence' = donut_sequence \o <<"<", "/", "s", "_">> \o task_name \o <<">">>
    /\ enc_pc' = "returned"
    /\ UNCHANGED <<enc_i, task_name, ground_truth_parse>>
    /\ UNCHANGED <<splitVars, mapVars, flatVars, extVars, rszVars, cliVars, copyVars>>

EncNext == EncStart \/ EncItem \/ EncReturn

-----------------------------------------------------------------------------
(* Python dicts and string tests used by the mapper and the flattener *)

UpperCase == <<"A", "B", "C", "D", "E", "F", "G", "H", "I", "J", "K", "L", "M", "N", "O", "P", "Q", "R", "S", "T", "U", "V", "W", "X", "Y", "Z">>
LowerCase == <<"a", "b", "c", "d", "e", "f", "g", "h", "i", "j", "k", "l", "m", "n", "o", "p", "q", "r", "s", "t", "u", "v", "w", "x", "y", "z">>

\* the lower-case letter of each upper-case letter
LowerOf == [c \in Range(UpperCase) |->
              LowerCase[CHOOSE i \in 1..Len(UpperCase) : UpperCase[i] = c]]

LowerChar(c) == IF c \in DOMAIN LowerOf THEN LowerOf[c] ELSE c

\* str.lower()
Lower(s) == [i \in 1..Len(s) |-> LowerChar(s[i])]

\* sub in s
Contains(sub, s) ==
    \E i \in 0..(Len(s) - Len(sub)) : SubSeq(s, i + 1, i + Len(sub)) = sub

DictHas(d, k) == \E i \in 1..Len(d) : d[i][1] = k

\* d.get(k, default)
DictGet(d, k, default) ==
    IF DictHas(d, k) THEN d[CHOOSE i \in 1..Len(d) : d[i][1] = k][2] ELSE default

\* d[k] = v: a present key keeps its place and takes the new value
DictSet(d, k, v) ==
    IF DictHas(d, k)
    THEN [i \in 1..Len(d) |-> IF d[i][1] = k THEN <<k, v>> ELSE d[i]]
    ELSE Append(d, <<k, v>>)

WordHeader == <<"h", "e", "a", "d", "e", "r">>
WordQuestion == <<"q", "u", "e", "s", "t", "i", "o", "n">>
WordAnswer == <<"a", "n", "s", "w", "e", "r">>

-----------------------------------------------------------------------------
(* map_to_key_value_pairs / map_key_value_pairs, for one image *)

LblQuestion == <<"q", "u", "e", "s", "t", "i", "o", "n">>
LblAnswer == <<"a", "n", "s", "w", "e", "r">>
LblHeader == <<"h", "e", "a", "d", "e", "r">>
LblOther == <<"O", "t", "h", "e", "r">>
LblHeaderQuestion == <<"H", "e", "a", "d", "e", "r", "_", "Q", "u", "e", "s", "t", "i", "o", "n">>

\* the labels annotations carry
Labels == {LblQuestion, LblAnswer, LblHeader, LblOther, LblHeaderQuestion}

\* the ids annotations carry and relations refer to
Ids == {1, 2}

\* the text of the annotation at position i of the page: "t1", "t2", ...
TextAt(i) == <<"t", Digit(i)>>

\* the pages extract_data_from_json can hand over: texts and labels hold one
\* record per annotation, in the same order and with the same ids
Pages ==
    {[ids |-> a, lbls |-> l] :
        a \in SeqsUpTo(Ids, MaxRec), l \in SeqsUpTo(Labels, MaxRec)}

RelationLists == SeqsUpTo([from_id : Ids, to_id : Ids], MaxRel)

\* a lookup that keeps the text of the first record of each id
RECURSIVE IdToTextFirst(_, _, _)
IdToTextFirst(d, txts, i) ==
    IF i > Len(txts) THEN d
    ELSE IdToTextFirst(IF DictHas(d, txts[i].id) THEN d
                       ELSE DictSet(d, txts[i].id, txts[i].text), txts, i + 1)

\* {text['id']: text['text'] for text in data['texts']}
RECURSIVE IdToText(_, _, _)
IdToText(d, txts, i) ==
    IF i > Len(txts) THEN d
    ELSE IdToText(DictSet(d, txts[i].id, txts[i].text), txts, i + 1)

\* buckets tried in the order question, header, answer
BucketOfQuestionFirst(label) ==
    IF Contains(WordQuestion, label) THEN "questions"
    ELSE IF Contains(WordHeader, label) THEN "headers"
    ELSE IF Contains(WordAnswer, label) THEN "answers"
    ELSE "others"

\* if 'header' in label: ... elif 'question' in label: ... elif 'answer' in label: ... else
BucketOf(label) ==
    IF Contains(WordHeader, label) THEN "headers"
    ELSE IF Contains(WordQuestion, label) THEN "questions"
    ELSE IF Contains(WordAnswer, label) THEN "answers"
    ELSE "others"

\* the loop over data['labels'], from record i on; b holds the four lists
RECURSIVE GroupLabels(_, _, _, _)
GroupLabels(b, lbls, lookup, i) ==
    IF i > Len(lbls) THEN b
    ELSE LET text_id == lbls[i].id
             label == Lower(lbls[i].label)
             text_content == DictGet(lookup, text_id, <<>>)
             entry == [id |-> text_id, text |-> text_content]
             bucket == BucketOf(label)
         IN  GroupLabels(
                 CASE bucket = "headers" ->
                        [b EXCEPT !.headers = Append(@, entry)]
                   [] bucket = "questions" ->
                        [b EXCEPT !.questions = Append(@, entry)]
                   [] bucket = "answers" ->
                        [b EXCEPT !.answers = Append(@, entry)]
                   [] OTHER ->
                        [b EXCEPT !.others = Append(@,
                            [id |-> text_id, text |-> text_content, label |-> label])],
                 lbls, lookup, i + 1)

\* an id without a label record takes the label of the first record
LabelOrFirst(lbls, an_id) ==
    IF \E i \in 1..Len(lbls) : lbls[i].id = an_id
    THEN lbls[CHOOSE i \in 1..Len(lbls) :
                 lbls[i].id = an_id /\ \A j \in 1..(i - 1) : lbls[j].id # an_id].label
    ELSE IF lbls = <<>> THEN <<>> ELSE lbls[1].label

\* next((l['label'] for l in data['labels'] if l['id'] == an_id), '')
LabelOfId(lbls, an_id) ==
    IF \E i \in 1..Len(lbls) : lbls[i].id = an_id
    THEN lbls[CHOOSE i \in 1..Len(lbls) :
                 lbls[i].id = an_id /\ \A j \in 1..(i - 1) : lbls[j].id # an_id].label
    ELSE <<>>

\* a question linked with an answer in either direction
PairTypeEitherWay(from_label, to_label) ==
    IF \/ Contains(WordQuestion, Lower(from_label)) /\ Contains(WordAnswer, Lower(to_label))
       \/ Contains(WordAnswer, Lower(from_label)) /\ Contains(WordQuestion, Lower(to_label))
    THEN "question_answer"
    ELSE IF Contains(WordHeader, Lower(from_label)) /\ Contains(WordQuestion, Lower(to_label))
    THEN "header_question"
    ELSE "none"

\* if 'question' in from_label.lower() and 'answer' in to_label.lower(): ...
\* elif 'header' in from_label.lower() and 'question' in to_label.lower(): ...
PairType(from_label, to_label) ==
    IF Contains(WordQuestion, Lower(from_label)) /\ Contains(WordAnswer, Lower(to_label))
    THEN "question_answer"
    ELSE IF Contains(WordHeader, Lower(from_label)) /\ Contains(WordQuestion, Lower(to_label))
    THEN "header_question"
    ELSE "none"

\* a set of seen pairs that is never added to
SeenUnchanged(seen, pair_key) == seen

\* seen_pairs.add(pair_key)
SeenAdd(seen, pair_key) == seen \cup {pair_key}

MapInit ==
    /\ map_pc = "call"
    /\ \E page \in Pages :
          /\ Len(page.ids) = Len(page.lbls)
          /\ texts = [i \in 1..Len(page.ids) |-> [id |-> page.ids[i], text |-> TextAt(i)]]
          /\ labels = [i \in 1..Len(page.ids) |->
                          [id |-> page.ids[i], label |-> page.lbls[i]]]
    /\ relations \in RelationLists
    /\ id_to_text = <<>>
    /\ headers = <<>> /\ questions = <<>> /\ answers = <<>> /\ others = <<>>
    /\ rel_i = 0 /\ seen_pairs = {} /\ key_value_pairs = <<>> /\ emitted_at = <<>>

\* the id_to_text comprehension and the loop that fills the four buckets
MapGroup ==
    /\ map_pc = "call"
    /\ LET lookup == IdToText(<<>>, texts, 1)
           b == GroupLabels([headers |-> <<>>, questions |-> <<>>,
                             answers |-> <<>>, others |-> <<>>], labels, lookup, 1)
       IN  /\ id_to_text' = lookup
           /\ headers' = b.headers
           /\ questions' = b.questions
           /\ answers' = b.answers
           /\ others' = b.others
    /\ key_value_pairs' = <<>>
    /\ seen_pairs' = {}
    /\ emitted_at' = <<>>
    /\ rel_i' = 1
    /\ map_pc' = "relations"
    /\ UNCHANGED <<texts, labels, relations>>
    /\ UNCHANGED <<splitVars, encVars, flatVars, extVars, rszVars, cliVars, copyVars>>

\* one iteration of: for relation in data['relations']
MapRelation ==
    /\ map_pc = "relations"
    /\ rel_i <= Len(relations)
    /\ LET from_id == relations[rel_i].from_id
           to_id == relations[rel_i].to_id
           from_text == DictGet(id_to_text, from_id, <<>>)
           to_text == DictGet(id_to_text, to_id, <<>>)
           from_label == LabelOfId(labels, from_id)
           to_label == LabelOfId(labels, to_id)
           pair_key == <<from_id, to_id>>
           type == PairType(from_label, to_label)
       IN  IF pair_key \notin seen_pairs
           THEN /\ seen_pairs' = SeenAdd(seen_pairs, pair_key)
                /\ IF type # "none"
                   THEN /\ key_value_pairs' = Append(key_value_pairs,
                              [type |-> type, key |-> from_text, value |-> to_text,
                               key_id |-> from_id, value_id |-> to_id])
                        /\ emitted_at' = Append(emitted_at, rel_i)
                   ELSE UNCHANGED <<key_value_pairs, emitted_at>>
           ELSE UNCHANGED <<seen_pairs, key_value_pairs, emitted_at>>
    /\ rel_i' = rel_i + 1
    /\ UNCHANGED <<map_pc, texts, labels, relations, id_to_text,
                   headers, questions, answers, others>>
    /\ UNCHANGED <<splitVars, encVars, flatVars, extVars, rszVars, cliVars, copyVars>>

\* mapped_data[png_filename] = {...}; return mapped_data
MapReturn ==
    /\ map_pc = "relations"
    /\ rel_i > Len(relations)
    /\ map_pc' = "returned"
    /\ UNCHANGED <<texts, labels, relations, id_to_text, headers, questions,
                   answers, others, rel_i, seen_pairs, key_value_pairs, emitted_at>>
    /\ UNCHANGED <<splitVars, encVars, flatVars, extVars, rszVars, cliVars, copyVars>>

MapNext == MapGroup \/ MapRelation \/ MapReturn

-----------------------------------------------------------------------------
(* save_individual_json_files / save_key_value_pairs_to_json, for one image *)

KeyDate == <<"D", "a", "t", "e">>
KeyDate1 == <<"D", "a", "t", "e", "_", "1">>
KeyX == <<"x">>

FlatKeys == {KeyDate, KeyDate1, KeyX}
FlatValues == {<<"2", "0", "2", "0">>, <<"2", "0", "2", "1">>}

\* the key_value_pairs of one image, as far as the flattener reads them
PairLists == SeqsUpTo([key : FlatKeys, value : FlatValues], MaxPairs)

\* the key as it is, taken or not
SameName(d, original_key, key, counter) == key

\* while key in png_key_value_pairs: key = f"{original_key}_{counter}"; counter += 1
RECURSIVE FreeName(_, _, _, _)
FreeName(d, original_key, key, counter) ==
    IF DictHas(d, key)
    THEN FreeName(d, original_key, original_key \o <<"_">> \o Decimal(counter), counter + 1)
    ELSE key

FlatInit ==
    /\ flat_pc = "call"
    /\ flat_pairs \in PairLists
    /\ flat_i = 0
    /\ png_key_value_pairs = <<>>
    /\ inserted_as = <<>>

\* png_key_value_pairs = {}
FlatStart ==
    /\ flat_pc = "call"
    /\ png_key_value_pairs' = <<>>
    /\ inserted_as' = <<>>
    /\ flat_i' = 1
    /\ flat_pc' = "loop"
    /\ UNCHANGED flat_pairs
    /\ UNCHANGED <<splitVars, encVars, mapVars, extVars, rszVars, cliVars, copyVars>>

\* one iteration of: for kv_pair in data['key_value_pairs']
FlatPair ==
    /\ flat_pc = "loop"
    /\ flat_i <= Len(flat_pairs)
    /\ LET original_key == flat_pairs[flat_i].key
           value == flat_pairs[flat_i].value
           key == FreeName(png_key_value_pairs, original_key, original_key, 1)
       IN  /\ png_key_value_pairs' = DictSet(png_key_value_pairs, key, value)
           /\ inserted_as' = Append(inserted_as, key)
    /\ flat_i' = flat_i + 1
    /\ UNCHANGED <<flat_pc, flat_pairs>>
    /\ UNCHANGED <<splitVars, encVars, mapVars, extVars, rszVars, cliVars, copyVars>>

\* json.dump(png_key_value_pairs, f, ...)
FlatSave ==
    /\ flat_pc = "loop"
    /\ flat_i > Len(flat_pairs)
    /\ flat_pc' = "saved"
    /\ UNCHANGED <<flat_pairs, flat_i, png_key_value_pairs, inserted_as>>
    /\ UNCHANGED <<splitVars, encVars, mapVars, extVars, rszVars, cliVars, copyVars>>

FlatNext == FlatStart \/ FlatPair \/ FlatSave

-----------------------------------------------------------------------------
(* extract_data_from_json / extract_specific_png_data *)

\* annotations of one JSON document
MaxAnn == 2
\* linking entries of one JSON document
MaxLink == 2

PngNames == <<"a.png", "b.png">>

\* what a linking list can hold: lists of two ids, a list of three, and a
\* string, which is not a list although its len() is 2
LinkEntries ==
    {[kind |-> "list", items |-> <<1, 2>>], [kind |-> "list", items |-> <<2, 1>>],
     [kind |-> "list", items |-> <<1, 2, 1>>], [kind |-> "str", chars |-> <<"1", "2">>]}

\* the label of the annotation at position i of the document
AnnLabelAt(i) == IF i % 2 = 1 THEN LblQuestion ELSE LblAnswer

\* the annotation at position i of the document; has_linking tells whether it
\* has a "linking" key at all
Annotation(i, has_linking, linking) ==
    IF has_linking
    THEN [id |-> i, text |-> TextAt(i), label |-> AnnLabelAt(i), linking |-> linking]
    ELSE [id |-> i, text |-> TextAt(i), label |-> AnnLabelAt(i)]

\* the entries of links that belong to annotation i, in order
LinkingOf(links, i) ==
    LET at == SelectSeq([k \in 1..Len(links) |-> k], LAMBDA k : links[k].ann = i)
    IN  [k \in 1..Len(at) |-> links[at[k]].entry]

\* the linking entries of a document whose annotations have the linking keys
\* flags tells of: up to MaxLink entries, each on an annotation that has the
\* key, in the order of the annotations
LinkLists(flags) ==
    {l \in SeqsUpTo([ann : {i \in 1..Len(flags) : flags[i]}, entry : LinkEntries],
                    MaxLink) :
        \A k \in 2..Len(l) : l[k - 1].ann <= l[k].ann}

\* the ways to lay n annotations out in images: no image (when there is no
\* annotation), one image, or two images with the first c annotations in the
\* first
Layouts(n) ==
    {[cut |-> n, images |-> 1]} \cup {[cut |-> c, images |-> 2] : c \in 0..n}
        \cup (IF n = 0 THEN {[cut |-> 0, images |-> 0]} ELSE {})

\* the JSON documents of the bounds: up to MaxAnn annotations with up to
\* MaxLink linking entries among them, in no image, one image or two images
Document(flags, links, layout) ==
    [flags |-> flags, links |-> links, cut |-> layout.cut, images |-> layout.images]

\* json.load(file) of the document: the items of the dict, in order
LoadDocument(doc) ==
    LET anns == [i \in 1..Len(doc.flags) |->
                    Annotation(i, doc.flags[i], LinkingOf(doc.links, i))]
    IN  IF doc.images = 0 THEN <<>>
        ELSE IF doc.images = 1 THEN << <<PngNames[1], anns>> >>
        ELSE << <<PngNames[1], SubSeq(anns, 1, doc.cut)>>,
                <<PngNames[2], SubSeq(anns, doc.cut + 1, Len(anns))>> >>

\* annotation.get(key, default)
AnnGet(annotation, key, default) ==
    IF key \in DOMAIN annotation THEN annotation[key] ELSE default

\* a list of any length
IsList(relation) == relation.kind = "list"

\* isinstance(relation, list) and len(relation) == 2
IsTwoList(relation) == relation.kind = "list" /\ Len(relation.items) = 2

\* for relation in linking: if ...: relations.append({'from_id': ..., 'to_id': ...})
RECURSIVE AppendRelations(_, _, _)
AppendRelations(rels, linking, i) ==
    IF i > Len(linking) THEN rels
    ELSE AppendRelations(
            IF IsTwoList(linking[i])
            THEN Append(rels, [from_id |-> linking[i].items[1],
                               to_id |-> linking[i].items[2]])
            ELSE rels,
            linking, i + 1)

ExtInit ==
    /\ ext_pc = "call"
    /\ \E flags \in SeqsUpTo(BOOLEAN, MaxAnn) :
          \E links \in LinkLists(flags), layout \in Layouts(Len(flags)) :
             data = LoadDocument(Document(flags, links, layout))
    /\ img_i = 0 /\ ann_i = 0
    /\ extracted_data = <<>>

\* the annotations of the current image
CurrentAnnotations == data[img_i][2]

\* the loop over the annotations of the current image is over
AnnotationsDone == ext_pc = "annotations" /\ ann_i > Len(CurrentAnnotations)

\* data = json.load(file); extracted_data = {}
ExtLoad ==
    /\ ext_pc = "call"
    /\ extracted_data' = <<>>
    /\ img_i' = 0
    /\ ext_pc' = "images"
    /\ UNCHANGED <<data, ann_i>>
    /\ UNCHANGED <<splitVars, encVars, mapVars, flatVars, rszVars, cliVars, copyVars>>

\* for png_filename, annotations in data.items(): the storage of the next image
ExtImage ==
    /\ ext_pc = "images" \/ AnnotationsDone
    /\ img_i < Len(data)
    /\ img_i' = img_i + 1
    /\ extracted_data' = DictSet(extracted_data, data[img_i'][1],
                                 [texts |-> <<>>, labels |-> <<>>, relations |-> <<>>])
    /\ ann_i' = 1
    /\ ext_pc' = "annotations"
    /\ UNCHANGED data
    /\ UNCHANGED <<splitVars, encVars, mapVars, flatVars, rszVars, cliVars, copyVars>>

\* one iteration of: for annotation in annotations
ExtAnnotation ==
    /\ ext_pc = "annotations"
    /\ ann_i <= Len(CurrentAnnotations)
    /\ LET png_filename == data[img_i][1]
           annotation == CurrentAnnotations[ann_i]
           text == AnnGet(annotation, "text", <<>>)
           label == AnnGet(annotation, "label", <<>>)
           linking == AnnGet(annotation, "linking", <<>>)
           page == DictGet(extracted_data, png_filename, <<>>)
       IN  extracted_data' = DictSet(extracted_data, png_filename,
              [texts |-> Append(page.texts,
                            [id |-> AnnGet(annotation, "id", NoneVal), text |-> text]),
               labels |-> Append(page.labels,
                            [id |-> AnnGet(annotation, "id", NoneVal), label |-> label]),
               relations |-> AppendRelations(page.relations, linking, 1)])
    /\ ann_i' = ann_i + 1
    /\ UNCHANGED <<ext_pc, data, img_i>>
    /\ UNCHANGED <<splitVars, encVars, mapVars, flatVars, rszVars, cliVars, copyVars>>

\* return extracted_data
ExtReturn ==
    /\ ext_pc = "images" \/ AnnotationsDone
    /\ img_i = Len(data)
    /\ ext_pc' = "returned"
    /\ UNCHANGED <<data, img_i, ann_i, extracted_data>>
    /\ UNCHANGED <<splitVars, encVars, mapVars, flatVars, rszVars, cliVars, copyVars>>

ExtNext == ExtLoad \/ ExtImage \/ ExtAnnotation \/ ExtReturn

-----------------------------------------------------------------------------
(* resize_image *)

\* the largest width or height, of a source image or of the canvas, in pixels
MaxSide == 4

Sides == 1..MaxSide

\* min(target_width / orig_width, target_height / orig_height), as a fraction.
\* For the sides of the bounds the float quotient and the float products
\* below round to the same integers as the exact ones.
ScaleFactor(tw, th, ow, oh) ==
    IF tw * oh <= th * ow THEN <<tw, ow>> ELSE <<th, oh>>

\* int(side * scale_factor)
Scaled(side, scale) == (side * scale[1]) \div scale[2]

\* Image.resize(size, ...): Pillow refuses a size with a side below 1
\* (ValueError: height and width must be > 0)
ResizeRaises(size) == size[1] < 1 \/ size[2] < 1

\* the leftover rounded up
CenterPadUp(total, used) == (total - used + 1) \div 2

\* (target_width - new_width) // 2
CenterPad(total, used) == (total - used) \div 2

NoImage == <<>>

RszInit ==
    /\ rsz_pc = "call"
    /\ orig_width \in Sides /\ orig_height \in Sides
    /\ target_width \in Sides /\ target_height \in Sides
    /\ scale_factor = <<0, 1>> /\ new_width = 0 /\ new_height = 0
    /\ pad_x = 0 /\ pad_y = 0
    /\ padded_img = NoImage

\* the scaling factor and the new dimensions
RszScale ==
    /\ rsz_pc = "call"
    /\ LET s == ScaleFactor(target_width, target_height, orig_width, orig_height)
       IN  /\ scale_factor' = s
           /\ new_width' = Scaled(orig_width, s)
           /\ new_height' = Scaled(orig_height, s)
    /\ rsz_pc' = "scaled"
    /\ UNCHANGED <<orig_width, orig_height, target_width, target_height,
                   pad_x, pad_y, padded_img>>
    /\ UNCHANGED <<splitVars, encVars, mapVars, flatVars, extVars, cliVars, copyVars>>

\* img_resized = img.resize((new_width, new_height), Image.Resampling.LANCZOS)
RszResize ==
    /\ rsz_pc = "scaled"
    /\ rsz_pc' = IF ResizeRaises(<<new_width, new_height>>) THEN "raised" ELSE "resized"
    /\ UNCHANGED <<orig_width, orig_height, target_width, target_height,
                   scale_factor, new_width, new_height, pad_x, pad_y, padded_img>>
    /\ UNCHANGED <<splitVars, encVars, mapVars, flatVars, extVars, cliVars, copyVars>>

\* the white canvas, the paddings, the paste, and the return
RszPaste ==
    /\ rsz_pc = "resized"
    /\ pad_x' = CenterPad(target_width, new_width)
    /\ pad_y' = CenterPad(target_height, new_height)
    /\ padded_img' = [size |-> <<target_width, target_height>>,
                      box |-> <<pad_x', pad_y', pad_x' + new_width, pad_y' + new_height>>]
    /\ rsz_pc' = "returned"
    /\ UNCHANGED <<orig_width, orig_height, target_width, target_height,
                   scale_factor, new_width, new_height>>
    /\ UNCHANGED <<splitVars, encVars, mapVars, flatVars, extVars, cliVars, copyVars>>

RszNext == RszScale \/ RszResize \/ RszPaste

-----------------------------------------------------------------------------
(* infer_single.py, run as a script *)

TaskDocvqa == "docvqa"
CliTaskNames == {TaskDocvqa, "SRFUND"}

\* --question: not given (None), given empty, given
Questions == {NoneVal, StrVal(<<>>), StrVal(<<"W", "h", "o", "?">>)}

\* --output_path: not given (None), a path with a directory, a bare file name
OutputPaths ==
    {NoneVal, [t |-> "path", dir |-> "out", name |-> "r.json"],
              [t |-> "path", dir |-> "", name |-> "r.json"]}

\* the command lines: required_given tells whether --pretrained_model_name_or_path,
\* --image_path and --task_name are all there
CommandLines ==
    [required_given : BOOLEAN, task_name : CliTaskNames, question : Questions,
     output_path : OutputPaths]

\* where the environment fails: nowhere, DonutModel.from_pretrained, the image
\* file is absent, Image.open, pretrained_model.inference, writing the output
Failures == {"none", "model", "image_missing", "image_open", "inference", "write"}

\* not args.question
NoQuestion(args) == args.question = NoneVal \/ args.question = StrVal(<<>>)

\* a script that takes every command line
AcceptsAll(args) == FALSE

\* if args.task_name == "docvqa" and not args.question: parser.error(...)
RejectsArguments(args) == args.task_name = TaskDocvqa /\ NoQuestion(args)

\* every way out gives status 0
ExitStatusZero(outcome) == 0

\* the status the process ends with: parser.error exits with 2, the except
\* branch calls exit(1), the end of the script gives 0
ExitStatus(outcome) ==
    CASE outcome = "usage_error" -> 2
      [] outcome = "exception" -> 1
      [] OTHER -> 0

CliInit ==
    /\ cli_pc = "start"
    /\ cli_args \in CommandLines
    /\ cli_env \in Failures
    /\ cli_trace = <<>>
    /\ cli_out = <<>>
    /\ exit_code = -1

\* args = parser.parse_args()
CliParseArgs ==
    /\ cli_pc = "start"
    /\ IF cli_args.required_given
       THEN cli_pc' = "validate" /\ UNCHANGED exit_code
       ELSE cli_pc' = "exited" /\ exit_code' = ExitStatus("usage_error")
    /\ UNCHANGED <<cli_args, cli_env, cli_trace, cli_out>>
    /\ UNCHANGED <<splitVars, encVars, mapVars, flatVars, extVars, rszVars, copyVars>>

\* the validation of the arguments, before the try
CliValidate ==
    /\ cli_pc = "validate"
    /\ IF RejectsArguments(cli_args)
       THEN cli_pc' = "exited" /\ exit_code' = ExitStatus("usage_error")
       ELSE cli_pc' = "load_model" /\ UNCHANGED exit_code
    /\ UNCHANGED <<cli_args, cli_env, cli_trace, cli_out>>
    /\ UNCHANGED <<splitVars, encVars, mapVars, flatVars, extVars, rszVars, copyVars>>

\* DonutModel.from_pretrained(...), half()/to("cuda"), eval()
CliLoadModel ==
    /\ cli_pc = "load_model"
    /\ IF cli_env = "model"
       THEN cli_pc' = "caught" /\ UNCHANGED cli_trace
       ELSE cli_pc' = "open_image" /\ cli_trace' = Append(cli_trace, "load_model")
    /\ UNCHANGED <<cli_args, cli_env, cli_out, exit_code>>
    /\ UNCHANGED <<splitVars, encVars, mapVars, flatVars, extVars, rszVars, copyVars>>

\* the os.path.exists check, Image.open and the conversion to RGB
CliOpenImage ==
    /\ cli_pc = "open_image"
    /\ IF cli_env \in {"image_missing", "image_open"}
       THEN cli_pc' = "caught" /\ UNCHANGED cli_trace
       ELSE cli_pc' = "prompt" /\ cli_trace' = Append(cli_trace, "open_image")
    /\ UNCHANGED <<cli_args, cli_env, cli_out, exit_code>>
    /\ UNCHANGED <<splitVars, encVars, mapVars, flatVars, extVars, rszVars, copyVars>>

\* the prompt; infer_single raises ValueError for docvqa without a question
CliPrompt ==
    /\ cli_pc = "prompt"
    /\ cli_pc' = IF cli_args.task_name = TaskDocvqa /\ NoQuestion(cli_args)
                 THEN "caught" ELSE "inference"
    /\ UNCHANGED <<cli_args, cli_env, cli_trace, cli_out, exit_code>>
    /\ UNCHANGED <<splitVars, encVars, mapVars, flatVars, extVars, rszVars, copyVars>>

\* pretrained_model.inference(...), result["predictions"][0], the print
CliInference ==
    /\ cli_pc = "inference"
    /\ IF cli_env = "inference"
       THEN cli_pc' = "caught" /\ UNCHANGED cli_trace
       ELSE cli_pc' = "save" /\ cli_trace' = Append(cli_trace, "inference")
    /\ UNCHANGED <<cli_args, cli_env, cli_out, exit_code>>
    /\ UNCHANGED <<splitVars, encVars, mapVars, flatVars, extVars, rszVars, copyVars>>

\* if args.output_path: os.makedirs(os.path.dirname(...)); json.dump(...)
\* return output.  os.makedirs("") raises FileNotFoundError.
CliSave ==
    /\ cli_pc = "save"
    /\ IF cli_args.output_path = NoneVal
       THEN cli_pc' = "returned" /\ UNCHANGED <<cli_trace, cli_out>>
       ELSE IF cli_args.output_path.dir = "" \/ cli_env = "write"
       THEN cli_pc' = "caught" /\ UNCHANGED <<cli_trace, cli_out>>
       ELSE /\ cli_pc' = "returned"
            /\ cli_out' = <<"output">>
            /\ cli_trace' = Append(cli_trace, "write_output")
    /\ UNCHANGED <<cli_args, cli_env, exit_code>>
    /\ UNCHANGED <<splitVars, encVars, mapVars, flatVars, extVars, rszVars, copyVars>>

\* except Exception as e: print(...); exit(1)
CliCaught ==
    /\ cli_pc = "caught"
    /\ exit_code' = ExitStatus("exception")
    /\ cli_pc' = "exited"
    /\ UNCHANGED <<cli_args, cli_env, cli_trace, cli_out>>
    /\ UNCHANGED <<splitVars, encVars, mapVars, flatVars, extVars, rszVars, copyVars>>

\* infer_single returned and the script ends
CliEnd ==
    /\ cli_pc = "returned"
    /\ exit_code' = ExitStatus("returned")
    /\ cli_pc' = "exited"
    /\ UNCHANGED <<cli_args, cli_env, cli_trace, cli_out>>
    /\ UNCHANGED <<splitVars, encVars, mapVars, flatVars, extVars, rszVars, copyVars>>

CliNext ==
    \/ CliParseArgs \/ CliValidate \/ CliLoadModel \/ CliOpenImage \/ CliPrompt
    \/ CliInference \/ CliSave \/ CliCaught \/ CliEnd

-----------------------------------------------------------------------------
(* copy_images_to_splits *)

\* the most lines the three metadata files hold together when the function
\* is called on the files the output folder already holds
MaxLines == 2

\* the JSON files of a folder in which two names give the same image name:
\* 1.json, 1.png.json, 1.json.json
SharedImageNames ==
    <<JsonName(1), MidName(1, ".png", ".json"), MidName(1, ".json", ".json")>>

\* the image names the metadata lines hold: 1.png, 1.png.png
ImageNames == {ReplaceJsonPng(n) : n \in Range(SharedImageNames)}

\* what images_folder_path holds under a name: nothing, an image, or a file
\* on which resize_image raises
ImageStates == {"absent", "image", "raises"}

\* the lines of a metadata file: an entry for an image, an entry without the
\* "file_name" key, a line that is not JSON
NamedLine(image_filename) ==
    [file_name |-> image_filename, ground_truth |-> JsonDumps([gt_parse |-> <<>>])]

NoNameLine == [ground_truth |-> JsonDumps([gt_parse |-> <<>>])]

NotJsonLine == [text |-> <<"{">>]

FoundLines == {NamedLine(i) : i \in ImageNames} \cup {NoNameLine, NotJsonLine}

\* the metadata files of at most n lines, and no file
DiskFiles(n) ==
    {AbsentFile} \cup {[exists |-> TRUE, lines |-> l] : l \in SeqsUpTo(FoundLines, n)}

\* json.loads(line.strip()) raises
JsonLoadsRaises(line) == "text" \in DOMAIN line

\* entry["file_name"] raises KeyError
NoFileName(entry) == "file_name" \notin DOMAIN entry

\* os.path.exists(source_path)
SourceExists(image_filename) == images[image_filename] # "absent"

\* the splitter not run: its variables at rest, whatever metadata files the
\* output folder holds
SplitNotRun ==
    /\ listing = <<>> /\ train_ratio = 0 /\ val_ratio = 0 /\ test_ratio = 0
    /\ variant = "raw" /\ file_status = <<>>
    /\ run = 1 /\ pc = "idle" /\ rng = [seed |-> SEED, pos |-> 0]
    /\ json_files = <<>>
    /\ train_count = 0 /\ val_count = 0 /\ test_count = 0
    /\ train_files = <<>> /\ val_files = <<>> /\ test_files = <<>>
    /\ di = 0 /\ fi = 0 /\ processed_count = 0
    /\ visited = <<>>
    /\ warned_missing = {} /\ warned_error = {}
    /\ result = NoResult
    /\ prev = NoPrev

\* the function is called after create_metadata_files on a folder of the
\* bounds: the images are those the creation met
CopyAfterCreation ==
    /\ SplitInitOn(ListingsOf(SharedImageNames))
    /\ variant = "raw"
    /\ test_ratio = 3
    /\ images \in [ImageNames -> ImageStates]
    /\ \A f \in DOMAIN file_status :
          /\ file_status[f] = "no_image" => images[ReplaceJsonPng(f)] = "absent"
          /\ file_status[f] = "ok" => images[ReplaceJsonPng(f)] # "absent"

\* the function is called on the metadata files the output folder holds
CopyOnFoundFiles ==
    /\ SplitNotRun
    /\ \E a \in DiskFiles(MaxLines) :
          \E b \in DiskFiles(MaxLines - Len(a.lines)) :
             \E c \in DiskFiles(MaxLines - Len(a.lines) - Len(b.lines)) :
                metadata = <<a, b, c>>
    /\ images \in [ImageNames -> ImageStates]

CopyInit ==
    /\ CopyAfterCreation \/ CopyOnFoundFiles
    /\ copy_pc = "call"
    /\ copy_di = 0 /\ copy_li = 0
    /\ written = [d \in 1..3 |-> {}]
    /\ copy_trace = <<>>

\* datasets = ["train", "validation", "test"]
CopyCall ==
    /\ copy_pc = "call"
    /\ pc \in {"idle", "done"}
    /\ copy_pc' = "datasets"
    /\ copy_di' = 1
    /\ UNCHANGED <<images, copy_li, written, copy_trace>>
    /\ UNCHANGED <<splitVars, encVars, mapVars, flatVars, extVars, rszVars, cliVars>>

\* one iteration of: for dataset_name in datasets, up to open(metadata_path)
CopyDataset ==
    /\ copy_pc = "datasets"
    /\ copy_di <= 3
    /\ IF ~metadata[copy_di].exists
       THEN \* print("Metadata file not found"); continue
            /\ copy_trace' = Append(copy_trace,
                                    [d |-> copy_di, line |-> 0, met |-> "no_metadata"])
            /\ copy_di' = copy_di + 1
            /\ UNCHANGED <<copy_pc, copy_li>>
       ELSE /\ copy_pc' = "lines"
            /\ copy_li' = 1
            /\ UNCHANGED <<copy_di, copy_trace>>
    /\ UNCHANGED <<images, written>>
    /\ UNCHANGED <<splitVars, encVars, mapVars, flatVars, extVars, rszVars, cliVars>>

\* one iteration of: for line in f
CopyLine ==
    /\ copy_pc = "lines"
    /\ copy_li <= Len(metadata[copy_di].lines)
    /\ LET line == metadata[copy_di].lines[copy_li]
           met(what) == Append(copy_trace,
                               [d |-> copy_di, line |-> copy_li, met |-> what])
       IN  IF JsonLoadsRaises(line) \/ NoFileName(line)
           THEN \* except Exception as e: print(...); continue
                /\ copy_trace' = met("error")
                /\ UNCHANGED written
           ELSE LET image_filename == line.file_name
                IN  IF SourceExists(image_filename)
                    THEN IF images[image_filename] = "raises"
                         THEN \* resize_image raises inside the try
                              /\ copy_trace' = met("error")
                              /\ UNCHANGED written
                         ELSE \* resized_img.save(dest_path, 'PNG', quality=95)
                              /\ written' = [written EXCEPT ![copy_di] =
                                                @ \cup {image_filename}]
                              /\ copy_trace' = met("saved")
                    ELSE \* print("Warning: Source image not found")
                         /\ copy_trace' = met("not_found")
                         /\ UNCHANGED written
    /\ copy_li' = copy_li + 1
    /\ UNCHANGED <<copy_pc, images, copy_di>>
    /\ UNCHANGED <<splitVars, encVars, mapVars, flatVars, extVars, rszVars, cliVars>>

\* the metadata file is exhausted: print("Images copied to"), next dataset
CopyClose ==
    /\ copy_pc = "lines"
    /\ copy_li > Len(metadata[copy_di].lines)
    /\ copy_di' = copy_di + 1
    /\ copy_pc' = "datasets"
    /\ UNCHANGED <<images, copy_li, written, copy_trace>>
    /\ UNCHANGED <<splitVars, encVars, mapVars, flatVars, extVars, rszVars, cliVars>>

\* the loop over the datasets is over
CopyReturn ==
    /\ copy_pc = "datasets"
    /\ copy_di > 3
    /\ copy_pc' = "returned"
    /\ UNCHANGED <<images, copy_di, copy_li, written, copy_trace>>
    /\ UNCHANGED <<splitVars, encVars, mapVars, flatVars, extVars, rszVars, cliVars>>

CopyNext == CopyCall \/ CopyDataset \/ CopyLine \/ CopyClose \/ CopyReturn

-----------------------------------------------------------------------------
(* Specifications *)

\* the state of a component that a specification does not run
EncIdle ==
    /\ enc_pc = "idle" /\ task_name = <<>> /\ ground_truth_parse = <<>>
    /\ enc_i = 0 /\ donut_sequence = <<>>

MapIdle ==
    /\ map_pc = "idle" /\ texts = <<>> /\ labels = <<>> /\ relations = <<>>
    /\ id_to_text = <<>>
    /\ headers = <<>> /\ questions = <<>> /\ answers = <<>> /\ others = <<>>
    /\ rel_i = 0 /\ seen_pairs = {} /\ key_value_pairs = <<>> /\ emitted_at = <<>>

FlatIdle ==
    /\ flat_pc = "idle" /\ flat_pairs = <<>> /\ flat_i = 0
    /\ png_key_value_pairs = <<>> /\ inserted_as = <<>>

ExtIdle ==
    /\ ext_pc = "idle" /\ data = <<>> /\ img_i = 0 /\ ann_i = 0
    /\ extracted_data = <<>>

RszIdle ==
    /\ rsz_pc = "idle"
    /\ orig_width = 0 /\ orig_height = 0 /\ target_width = 0 /\ target_height = 0
    /\ scale_factor = <<0, 1>> /\ new_width = 0 /\ new_height = 0
    /\ pad_x = 0 /\ pad_y = 0
    /\ padded_img = <<>>

CliIdle ==
    /\ cli_pc = "idle" /\ cli_args = <<>> /\ cli_env = "none"
    /\ cli_trace = <<>> /\ cli_out = <<>> /\ exit_code = -1

\* the components added to the four above, at rest
CopyIdle ==
    /\ copy_pc = "idle" /\ images = <<>> /\ copy_di = 0 /\ copy_li = 0
    /\ written = <<>> /\ copy_trace = <<>>

RestIdle == ExtIdle /\ RszIdle /\ CliIdle /\ CopyIdle

Init == SplitInit /\ EncIdle /\ MapIdle /\ FlatIdle /\ RestIdle

Next == SplitNext

\* one run of the splitter
Spec == Init /\ [][Next]_vars

RerunNext == SplitNext \/ Rerun

\* the splitter, run twice over the same input
RerunSpec == Init /\ [][RerunNext]_vars

\* every component but the splitter at rest
SplitIdle == SplitNotRun /\ metadata = [d \in 1..3 |-> AbsentFile]

\* the mapper on every page of the bounds
MapSpecInit == SplitIdle /\ EncIdle /\ MapInit /\ FlatIdle /\ RestIdle

MapSpec == MapSpecInit /\ [][MapNext]_vars

FlatSpecInit == SplitIdle /\ EncIdle /\ MapIdle /\ FlatInit /\ RestIdle

\* the flattener on every list of pairs of the bounds
FlatSpec == FlatSpecInit /\ [][FlatNext]_vars

\* convert_json_to_donut_sequence on every flat map of the bounds
EncSpecInit == SplitIdle /\ EncInit /\ MapIdle /\ FlatIdle /\ RestIdle

EncSpec == EncSpecInit /\ [][EncNext]_vars

ExtSpecInit == SplitIdle /\ EncIdle /\ MapIdle /\ FlatIdle /\ RszIdle /\ CliIdle /\ ExtInit /\ CopyIdle

\* the extractor on every JSON document of the bounds
ExtSpec == ExtSpecInit /\ [][ExtNext]_vars

RszSpecInit == SplitIdle /\ EncIdle /\ MapIdle /\ FlatIdle /\ ExtIdle /\ CliIdle /\ RszInit /\ CopyIdle

\* resize_image on every source size and canvas of the bounds
RszSpec == RszSpecInit /\ [][RszNext]_vars

CliSpecInit == SplitIdle /\ EncIdle /\ MapIdle /\ FlatIdle /\ ExtIdle /\ RszIdle /\ CliInit /\ CopyIdle

\* the inference script on every command line and failure of the bounds
CliSpec == CliSpecInit /\ [][CliNext]_vars

CopySpecInit == EncIdle /\ MapIdle /\ FlatIdle /\ ExtIdle /\ RszIdle /\ CliIdle /\ CopyInit

PipelineNext == SplitNext \/ CopyNext

\* copy_images_to_splits, called after create_metadata_files or on the
\* metadata files the output folder holds
CopySpec == CopySpecInit /\ [][PipelineNext]_vars

-----------------------------------------------------------------------------
(* Properties of the splitter *)

\* the JSON files of the input directory
InputJson == {n \in Range(listing) : n.ext = ".json"}
InputCount == Cardinality(InputJson)

\* floor(n * num / RatioDen), stated by its defining inequalities
FloorOfRatio(n, num) ==
    CHOOSE k \in 0..(n * num) : k * RatioDen <= n * num /\ n * num < (k + 1) * RatioDen

\* the image name that belongs to a JSON name
ImageOf(n) == [stem |-> n.stem, ext |-> ".png"]

\* the file names recorded in the metadata.jsonl of dataset d
Recorded(d) == {metadata[d].lines[i].file_name : i \in 1..Len(metadata[d].lines)}

SplitComputed == pc \in {"open", "files", "done"}

\* C1: splitting is deterministic. A second run over the same listing with the
\* same ratios computes the same train, validation and test lists, in the same
\* order, as the first run did, whatever state the generator of either process
\* started from.
C1_SameSplitOnRerun ==
    (run = 2 /\ SplitComputed) =>
        /\ train_files = prev.train_files
        /\ val_files = prev.val_files
        /\ test_files = prev.test_files

\* C1 witness: a second run has finished with three non-empty lists
C1_Witness ==
    /\ run = 2 /\ pc = "done"
    /\ train_files # <<>> /\ val_files # <<>> /\ test_files # <<>>

\* C2 as claimed: for every N and every pair of ratios the returned counts are
\* floor(N*train_ratio), floor(N*val_ratio) and the remainder.
C2_CountsForAllRatios ==
    pc = "done" =>
        /\ result.train_count = FloorOfRatio(InputCount, train_ratio)
        /\ result.validation_count = FloorOfRatio(InputCount, val_ratio)
        /\ result.train_count + result.validation_count + result.test_count
              = InputCount

\* C2 as amended: for non-negative ratios the returned counts always add up to
\* N, test_count being the remainder whatever test_ratio is; train_count is
\* floor(N*train_ratio) and val_count is floor(N*val_ratio) whenever these two
\* floors together do not exceed N.
C2_CountsWhenTheyFit ==
    pc = "done" =>
        /\ result.total_count = InputCount
        /\ result.test_count
              = InputCount - result.train_count - result.validation_count
        /\ result.test_count >= 0
        /\ (FloorOfRatio(InputCount, train_ratio)
              + FloorOfRatio(InputCount, val_ratio) <= InputCount) =>
              /\ result.train_count = FloorOfRatio(InputCount, train_ratio)
              /\ result.validation_count = FloorOfRatio(InputCount, val_ratio)
              /\ test_count = result.test_count

\* C2 witness: a run returned three non-zero counts, and the test count is not
\* what test_ratio would give
C2_Witness ==
    /\ pc = "done"
    /\ result.train_count > 0 /\ result.validation_count > 0
    /\ result.test_count > 0
    /\ result.test_count # FloorOfRatio(InputCount, test_ratio)

ListsDisjoint ==
    /\ Range(train_files) \cap Range(val_files) = {}
    /\ Range(train_files) \cap Range(test_files) = {}
    /\ Range(val_files) \cap Range(test_files) = {}
    /\ Injective(train_files \o val_files \o test_files)

RecordedOnce ==
    /\ \A d, e \in 1..3 : d # e => Recorded(d) \cap Recorded(e) = {}
    /\ \A d \in 1..3 : Injective(metadata[d].lines)

RECURSIVE OkImages(_)
OkImages(files) ==
    IF files = <<>> THEN <<>>
    ELSE (IF file_status[Head(files)] = "ok" THEN <<ImageOf(Head(files))>> ELSE <<>>)
            \o OkImages(Tail(files))

LineNames(d) == [i \in 1..Len(metadata[d].lines) |-> metadata[d].lines[i].file_name]

\* the files whose turn has come: the lists before dataset di, and the first
\* fi - 1 files of the current one
FilesDue ==
    LET all == train_files \o val_files \o test_files
        before == IF di = 1 THEN 0
                  ELSE IF di = 2 THEN Len(train_files)
                  ELSE Len(train_files) + Len(val_files)
    IN  SubSeq(all, 1, before + fi - 1)

\* C4: a JSON file that cannot be loaded, or whose image is missing, leaves no
\* line in metadata.jsonl and does not stop the batch: once the loop over the
\* datasets has begun the function always has a next step until it returns,
\* every file is reached in its turn, and when
\* the function has returned all three splits were written and hold exactly
\* the lines of their files that were not skipped, in order.
C4_SkipsNeverAbort ==
    /\ (di >= 1 /\ pc # "done") => ENABLED SplitNext
    /\ pc = "files" => visited = FilesDue
    /\ pc = "done" =>
          /\ result.returned
          /\ visited = train_files \o val_files \o test_files
          /\ \A d \in 1..3 :
                /\ metadata[d].exists
                /\ LineNames(d) = OkImages(FileList(d))

\* C4 witness: the first training file was skipped, a later training file was
\* recorded, a file was skipped for each of the two reasons, and the function
\* went on to the test split and returned
C4_Witness ==
    /\ pc = "done"
    /\ train_files # <<>> /\ file_status[train_files[1]] # "ok"
    /\ metadata[1].lines # <<>>
    /\ warned_missing # {} /\ warned_error # {}
    /\ test_files # <<>> /\ metadata[3].exists

\* C17: the splits are contiguous slices of one shuffled list. Position p of
\* the shuffled list (from 0) belongs to train when p < train_count, to
\* validation when train_count <= p < train_count + val_count, and to test
\* otherwise, at the same distance from the start of its slice; so train ++
\* validation ++ test is the shuffled list and each split keeps its order.
C17_ContiguousSlices ==
    SplitComputed =>
        /\ train_files \o val_files \o test_files = json_files
        /\ \A p \in 0..(Len(json_files) - 1) :
              IF p < train_count
              THEN Len(train_files) > p /\ train_files[p + 1] = json_files[p + 1]
              ELSE IF p < train_count + val_count
              THEN /\ Len(val_files) > p - train_count
                   /\ val_files[p - train_count + 1] = json_files[p + 1]
              ELSE /\ Len(test_files) > p - train_count - val_count
                   /\ test_files[p - train_count - val_count + 1] = json_files[p + 1]

\* C17 witness: three files, shuffled into another order than the listing's,
\* one in each split
C17_Witness ==
    /\ SplitComputed
    /\ json_files # SelectSeq(listing, EndsWithJson)
    /\ Len(train_files) = 1 /\ Len(val_files) = 1 /\ Len(test_files) = 1

\* a step that seeds the generator or reorders the list of JSON files
ShuffleStep == rng' # rng \/ (pc # "start" /\ json_files' # json_files)

\* a step that enters the loop body for a JSON file or touches a metadata file
PerFileStep == visited' # visited \/ metadata' # metadata

\* C18: in one run the seeded shuffle happens exactly once and before any
\* per-file work. The only step that seeds the generator or reorders the list
\* is taken from a generator that was never seeded, before any JSON file is
\* opened and before any metadata file exists; every step that opens a JSON
\* file or writes to a metadata file comes after the shuffle and the split and
\* leaves the list and the three slices as they are; the metadata files are
\* written train first, then validation, then test, each line for the file of
\* its slice whose turn it is.
C18_ShuffledOnceUpFront ==
    [][/\ ShuffleStep =>
             /\ pc = "listed"
             /\ rng.seed \in EntropySeeds /\ rng'.seed = SEED
             /\ visited = <<>>
             /\ \A d \in 1..3 : ~metadata[d].exists
       /\ PerFileStep =>
             /\ rng.seed = SEED
             /\ SplitComputed
             /\ train_files \o val_files \o test_files = json_files
             /\ UNCHANGED <<rng, json_files, train_files, val_files, test_files>>
       /\ \A d \in 1..3 :
             /\ metadata'[d] # metadata[d] =>
                   /\ \A e \in 1..(d - 1) : metadata[e].exists
                   /\ \A e \in (d + 1)..3 : ~metadata'[e].exists
             /\ metadata'[d].lines # metadata[d].lines =>
                   /\ di = d
                   /\ metadata'[d].lines = Append(metadata[d].lines,
                                                  MetadataEntry(FileList(d)[fi]))
      ]_vars

\* C18 witness: a run over three files has returned; the list was shuffled
\* into another order than the listing's and each metadata file holds a line
C18_Witness ==
    /\ pc = "done"
    /\ rng.seed = SEED
    /\ json_files # SelectSeq(listing, EndsWithJson)
    /\ \A d \in 1..3 : Len(metadata[d].lines) = 1

\* the count the returned dict gives for dataset d
ReturnedCount(d) == <<result.train_count, result.validation_count, result.test_count>>[d]

\* a file of dataset d was skipped, for a missing image or a JSON file that
\* could not be loaded
SomeFileSkipped(d) == \E i \in 1..Len(FileList(d)) : file_status[FileList(d)[i]] # "ok"

\* C20: the returned counts are the nominal slice sizes, not the number of
\* records written. For each split the returned count is the length of the
\* split list, the number of lines in metadata.jsonl is at most that count,
\* with equality exactly when no file of the split was skipped, and the lines
\* stand in the order of the split list.
C20_CountsAreSliceSizes ==
    pc = "done" =>
        /\ result.total_count = Len(json_files)
        /\ \A d \in 1..3 :
              /\ ReturnedCount(d) = Len(FileList(d))
              /\ Len(metadata[d].lines) <= ReturnedCount(d)
              /\ Len(metadata[d].lines) = ReturnedCount(d) <=> ~SomeFileSkipped(d)
              /\ LineNames(d) = OkImages(FileList(d))

\* C20 witness: the training list has two files of which one was skipped, so
\* its count is 2 and its metadata.jsonl holds one line, and the test list
\* has one file, which was recorded
C20_Witness ==
    /\ pc = "done"
    /\ result.train_count = 2 /\ Len(metadata[1].lines) = 1
    /\ result.test_count = 1 /\ Len(metadata[3].lines) = 1

-----------------------------------------------------------------------------
(* Properties of the sequence encoder *)

\* s without its leading and trailing whitespace: what lies between the first
\* and the last character that is not whitespace
Trimmed(s) ==
    LET solid == {i \in 1..Len(s) : s[i] \notin Whitespace}
    IN  IF solid = {} THEN <<>>
        ELSE SubSeq(s, CHOOSE i \in solid : \A j \in solid : i <= j,
                       CHOOSE i \in solid : \A j \in solid : i >= j)

\* the text of a value: a string is itself, 12 is "12", None is "None"
TextOf(v) ==
    IF v.t = "str" THEN v.s
    ELSE IF v.t = "None" THEN <<"N", "o", "n", "e">>
    ELSE IF v = IntVal(12) THEN <<"1", "2">>
    ELSE <<"?">>

TagOpen(name) == <<"<", "s", "_">> \o name \o <<">">>
TagClose(name) == <<"<", "/", "s", "_">> \o name \o <<">">>

RECURSIVE TaggedItems(_)
TaggedItems(items) ==
    IF items = <<>> THEN <<>>
    ELSE LET k == Trimmed(TextOf(Head(items)[1]))
             v == Trimmed(TextOf(Head(items)[2]))
         IN  TagOpen(k) \o v \o TagClose(k) \o TaggedItems(Tail(items))

\* C5: for every task name T and flat map, the encoder returns "<s_T>", then
\* "<s_k>v</s_k>" for each item in the map's order with k and v turned to text
\* and trimmed, then "</s_T>"; {"a":"1","b":"2"} with task T gives
\* <s_T><s_a>1</s_a><s_b>2</s_b></s_T> and the empty map gives <s_T></s_T>.
C5_DonutSequence ==
    enc_pc = "returned" =>
        /\ donut_sequence =
              TagOpen(task_name) \o TaggedItems(ground_truth_parse) \o TagClose(task_name)
        /\ (/\ task_name = <<"T">>
            /\ ground_truth_parse = << <<StrVal(<<"a">>), StrVal(<<"1">>)>>,
                                       <<StrVal(<<"b">>), StrVal(<<"2">>)>> >>)
             => donut_sequence =
                  <<"<", "s", "_", "T", ">",
                    "<", "s", "_", "a", ">", "1", "<", "/", "s", "_", "a", ">",
                    "<", "s", "_", "b", ">", "2", "<", "/", "s", "_", "b", ">",
                    "<", "/", "s", "_", "T", ">">>
        /\ (task_name = <<"T">> /\ ground_truth_parse = <<>>)
             => donut_sequence = <<"<", "s", "_", "T", ">", "<", "/", "s", "_", "T", ">">>

\* C5 witness: the encoder returned for a map of two items, the first with a
\* key that ends in whitespace and a value with whitespace around and inside
\* it, the second with a value that is not a string
C5_Witness ==
    /\ enc_pc = "returned"
    /\ Len(ground_truth_parse) = 2
    /\ ground_truth_parse[1] = <<StrVal(<<"b", "\n">>),
                                 StrVal(<<" ", "1", " ", "2", "\t">>)>>
    /\ ground_truth_parse[2][2] = IntVal(12)

-----------------------------------------------------------------------------
(* Properties of the mapper *)

\* which of the labels annotations carry hold each word, whatever the case
HeaderLabels == {LblHeader, LblHeaderQuestion}
QuestionLabels == {LblQuestion, LblHeaderQuestion}
AnswerLabels == {LblAnswer}

\* the label of the first label record with this id, the empty label if none
FirstLabel(an_id) ==
    LET at == {i \in 1..Len(labels) : labels[i].id = an_id}
    IN  IF at = {} THEN <<>> ELSE labels[CHOOSE i \in at : \A j \in at : i <= j].label

\* the pair a relation from a to b must give when it is seen for the first time
ExpectedType(a, b) ==
    IF FirstLabel(a) \in QuestionLabels /\ FirstLabel(b) \in AnswerLabels
    THEN "question_answer"
    ELSE IF FirstLabel(a) \in HeaderLabels /\ FirstLabel(b) \in QuestionLabels
    THEN "header_question"
    ELSE "none"

\* relation r is the first of the list with its (from_id, to_id)
FirstOccurrence(r) == \A q \in 1..(r - 1) : relations[q] # relations[r]

\* the relations the loop has been through
RelationsDone == IF map_pc = "returned" THEN Len(relations) ELSE rel_i - 1

MapStarted == map_pc \in {"relations", "returned"}

\* the pairs emitted for relation r
EmittedFor(r) == {k \in 1..Len(emitted_at) : emitted_at[k] = r}

\* the text of the only text record with this id
OnlyText(an_id) == texts[CHOOSE i \in 1..Len(texts) : texts[i].id = an_id].text

HasOneText(an_id) == Cardinality({i \in 1..Len(texts) : texts[i].id = an_id}) = 1

\* C7: relation classification is directional. A relation (from, to) seen for
\* the first time gives a question_answer pair if and only if the from-label
\* holds "question" and the to-label holds "answer" (in any case), otherwise a
\* header_question pair if and only if the from-label holds "header" and the
\* to-label holds "question", otherwise nothing; the pair's key and value are
\* the texts of from and to. With labels {1: question, 2: answer}, relation
\* (1,2) gives one question_answer pair and relation (2,1) gives none.
C7_DirectionalClassification ==
    MapStarted =>
        /\ Len(emitted_at) = Len(key_value_pairs)
        /\ \A r \in 1..RelationsDone :
              FirstOccurrence(r) =>
                 LET a == relations[r].from_id
                     b == relations[r].to_id
                 IN  IF ExpectedType(a, b) = "none"
                     THEN EmittedFor(r) = {}
                     ELSE /\ Cardinality(EmittedFor(r)) = 1
                          /\ \A k \in EmittedFor(r) :
                                /\ key_value_pairs[k].type = ExpectedType(a, b)
                                /\ key_value_pairs[k].key_id = a
                                /\ key_value_pairs[k].value_id = b
                                /\ HasOneText(a) => key_value_pairs[k].key = OnlyText(a)
                                /\ HasOneText(b) => key_value_pairs[k].value = OnlyText(b)
        /\ (/\ map_pc = "returned"
            /\ labels = <<[id |-> 1, label |-> LblQuestion], [id |-> 2, label |-> LblAnswer]>>)
             => /\ relations = <<[from_id |-> 1, to_id |-> 2]>> =>
                      key_value_pairs = <<[type |-> "question_answer",
                                           key |-> TextAt(1), value |-> TextAt(2),
                                           key_id |-> 1, value_id |-> 2]>>
                /\ relations = <<[from_id |-> 2, to_id |-> 1]>> => key_value_pairs = <<>>

\* C7 witness: labels {1: question, 2: answer}, relations (1,2) then (2,1): one
\* pair came out
C7_Witness ==
    /\ map_pc = "returned"
    /\ labels = <<[id |-> 1, label |-> LblQuestion], [id |-> 2, label |-> LblAnswer]>>
    /\ relations = <<[from_id |-> 1, to_id |-> 2], [from_id |-> 2, to_id |-> 1]>>
    /\ Len(key_value_pairs) = 1

\* C8: relations are deduplicated by (from_id, to_id). At most one pair is
\* emitted per distinct (from_id, to_id), the relation that emits it is the
\* first of the list with these ids, later duplicates emit nothing, and the
\* pairs stand in the order of the relations that emitted them.
C8_DeduplicatedInOrder ==
    MapStarted =>
        /\ Len(emitted_at) = Len(key_value_pairs)
        /\ \A k \in 1..Len(emitted_at) :
              /\ emitted_at[k] \in 1..RelationsDone
              /\ FirstOccurrence(emitted_at[k])
              /\ key_value_pairs[k].key_id = relations[emitted_at[k]].from_id
              /\ key_value_pairs[k].value_id = relations[emitted_at[k]].to_id
        /\ \A k, m \in 1..Len(emitted_at) :
              /\ k < m => emitted_at[k] < emitted_at[m]
              /\ k # m => <<key_value_pairs[k].key_id, key_value_pairs[k].value_id>>
                            # <<key_value_pairs[m].key_id, key_value_pairs[m].value_id>>

\* C8 witness: the same question-to-answer relation twice, one pair
C8_Witness ==
    /\ map_pc = "returned"
    /\ Len(relations) = 2 /\ relations[1] = relations[2]
    /\ Len(key_value_pairs) = 1

\* the bucket a label belongs to
ExpectedBucket(label) ==
    IF label \in HeaderLabels THEN "headers"
    ELSE IF label \in QuestionLabels THEN "questions"
    ELSE IF label \in AnswerLabels THEN "answers"
    ELSE "others"

\* the ids of the label records of a bucket, in the order of the input
IdsOfBucket(bucket) ==
    LET at == SelectSeq([i \in 1..Len(labels) |-> i],
                        LAMBDA i : ExpectedBucket(labels[i].label) = bucket)
    IN  [k \in 1..Len(at) |-> labels[at[k]].id]

IdsIn(entries) == [k \in 1..Len(entries) |-> entries[k].id]

\* C9: every label record is placed in exactly one of headers, questions,
\* answers, others, chosen by the words its label holds (in any case) in the
\* priority header, question, answer, else other; the four sizes add up to the
\* number of label records and each bucket keeps the input order.
C9_OneBucketByPriority ==
    MapStarted =>
        /\ IdsIn(headers) = IdsOfBucket("headers")
        /\ IdsIn(questions) = IdsOfBucket("questions")
        /\ IdsIn(answers) = IdsOfBucket("answers")
        /\ IdsIn(others) = IdsOfBucket("others")
        /\ Len(headers) + Len(questions) + Len(answers) + Len(others) = Len(labels)

\* C9 witness: a label holding both "header" and "question" went to headers,
\* next to a question
C9_Witness ==
    /\ map_pc = "returned"
    /\ Len(labels) = 2
    /\ labels[1].label = LblQuestion /\ labels[2].label = LblHeaderQuestion
    /\ Len(headers) = 1 /\ Len(questions) = 1

\* the labels of the label records that belong to others, as the input has them
InputLabelsOfOthers ==
    LET at == SelectSeq([i \in 1..Len(labels) |-> i],
                        LAMBDA i : ExpectedBucket(labels[i].label) = "others")
    IN  [k \in 1..Len(at) |-> labels[at[k]].label]

\* C10: an entry of the others bucket keeps the label of its label record
\* exactly as the input has it.
C10_OthersKeepLabel ==
    MapStarted => [k \in 1..Len(others) |-> others[k].label] = InputLabelsOfOthers

-----------------------------------------------------------------------------
(* Properties of the id-to-text lookup *)

\* the positions of the text records with this id
TextsAt(an_id) == {i \in 1..Len(texts) : texts[i].id = an_id}

\* the text of the first, and of the last, text record with this id; the empty
\* string when no text record has it
FirstTextOf(an_id) ==
    IF TextsAt(an_id) = {} THEN <<>>
    ELSE texts[CHOOSE i \in TextsAt(an_id) : \A j \in TextsAt(an_id) : i <= j].text

LastTextOf(an_id) ==
    IF TextsAt(an_id) = {} THEN <<>>
    ELSE texts[CHOOSE i \in TextsAt(an_id) : \A j \in TextsAt(an_id) : j <= i].text

\* every use of the lookup gives the text resolve[id]: the lookup itself, the
\* entries of the four buckets, and the key and value of every pair
LookupResolvesBy(resolve) ==
    /\ {id_to_text[k][1] : k \in 1..Len(id_to_text)} = {texts[i].id : i \in 1..Len(texts)}
    /\ \A k \in 1..Len(id_to_text) : id_to_text[k][2] = resolve[id_to_text[k][1]]
    /\ \A e \in Range(headers) \cup Range(questions) \cup Range(answers) :
          e.text = resolve[e.id]
    /\ \A e \in Range(others) : e.text = resolve[e.id]
    /\ \A k \in 1..Len(key_value_pairs) :
          /\ key_value_pairs[k].key = resolve[key_value_pairs[k].key_id]
          /\ key_value_pairs[k].value = resolve[key_value_pairs[k].value_id]

\* C11 as stated: the lookup is first-write-wins. When text records share an
\* id, the lookup, every bucket entry and every pair key and value resolve the
\* id to the text of the first record with that id.
C11_FirstWriteWins == MapStarted => LookupResolvesBy([a \in Ids |-> FirstTextOf(a)])

\* C11 amended: the lookup is last-write-wins. When text records share an id,
\* the lookup, every bucket entry and every pair key and value resolve the id
\* to the text of the last record with that id.
C11_LastWriteWins == MapStarted => LookupResolvesBy([a \in Ids |-> LastTextOf(a)])

\* C11 witness: two text records share id 1, and a pair whose key is id 1 came
\* out with the text of the second record
C11_Witness ==
    /\ map_pc = "returned"
    /\ Len(texts) = 2 /\ texts[1].id = 1 /\ texts[2].id = 1
    /\ texts[1].text # texts[2].text
    /\ \E k \in 1..Len(key_value_pairs) :
          key_value_pairs[k].key_id = 1 /\ key_value_pairs[k].key = texts[2].text
    /\ Len(headers) = 2

-----------------------------------------------------------------------------
(* Properties of relations with a missing endpoint *)

\* no text record and no label record carries this id
MissingId(an_id) ==
    /\ \A i \in 1..Len(texts) : texts[i].id # an_id
    /\ \A i \in 1..Len(labels) : labels[i].id # an_id

\* relation r refers to an id that no record carries
HasMissingEndpoint(r) ==
    MissingId(relations[r].from_id) \/ MissingId(relations[r].to_id)

\* the (from_id, to_id) of the first n relations
PairsOfFirst(n) == {<<relations[r].from_id, relations[r].to_id>> : r \in 1..n}

\* C12: a relation whose endpoint id is missing is never an error. The lookup
\* has no entry for the id, so it resolves to the empty string; the id has no
\* label record, so its label is the empty label and the relation emits
\* nothing; the iteration on such a relation always has its step, every
\* relation is gone through, and the relations that follow are classified as
\* if the missing one were not there.
C12_MissingEndpointIsNoError ==
    MapStarted =>
        /\ (map_pc = "relations" /\ rel_i <= Len(relations)
               /\ HasMissingEndpoint(rel_i)) => ENABLED MapRelation
        /\ seen_pairs = PairsOfFirst(RelationsDone)
        /\ map_pc = "returned" => RelationsDone = Len(relations)
        /\ \A r \in 1..RelationsDone :
              /\ \A an_id \in {relations[r].from_id, relations[r].to_id} :
                    MissingId(an_id) =>
                       /\ ~DictHas(id_to_text, an_id)
                       /\ DictGet(id_to_text, an_id, <<>>) = <<>>
                       /\ FirstLabel(an_id) = <<>>
              /\ HasMissingEndpoint(r) => EmittedFor(r) = {}
              /\ (~HasMissingEndpoint(r) /\ FirstOccurrence(r)) =>
                    Cardinality(EmittedFor(r)) =
                       IF ExpectedType(relations[r].from_id, relations[r].to_id) = "none"
                       THEN 0 ELSE 1

\* C12 witness: id 2 is on no record; relation (1,2) gave nothing and the
\* relation (1,1) after it gave its pair
C12_Witness ==
    /\ map_pc = "returned"
    /\ MissingId(2)
    /\ relations = <<[from_id |-> 1, to_id |-> 2], [from_id |-> 1, to_id |-> 1]>>
    /\ Len(key_value_pairs) = 1
    /\ key_value_pairs[1].key_id = 1 /\ key_value_pairs[1].value_id = 1
    /\ emitted_at = <<2>>

-----------------------------------------------------------------------------
(* Properties of the extractor *)

\* the annotations of image k the loop has been through
AnnotationsSeen(k) ==
    IF ext_pc = "returned" \/ k < img_i THEN Len(data[k][2]) ELSE ann_i - 1

\* the images that have their storage
ImagesBegun == IF ext_pc \in {"annotations", "returned"} THEN img_i ELSE 0

\* the linking entries of the first n annotations of a list, one after another
RECURSIVE LinkingEntries(_, _)
LinkingEntries(annotations, n) ==
    IF n = 0 THEN <<>>
    ELSE LinkingEntries(annotations, n - 1) \o
            (IF "linking" \in DOMAIN annotations[n] THEN annotations[n].linking ELSE <<>>)

\* a list of exactly two elements
WellFormedLink(e) == e \in {[kind |-> "list", items |-> <<a, b>>] : a, b \in Ids}

\* the relations of the well-formed entries of a list of entries, in order
RelationsOf(entries) ==
    LET good == SelectSeq(entries, WellFormedLink)
    IN  [k \in 1..Len(good) |-> [from_id |-> good[k].items[1], to_id |-> good[k].items[2]]]

\* C13: the extractor yields one page per image key, in the order of the
\* document. In a page, texts and labels hold exactly one record per
\* annotation, in input order, and relations hold exactly the two-element list
\* entries found under linking, in annotation order then linking order; an
\* entry that is not a list of two elements is skipped and changes nothing
\* else.
C13_OnePagePerImage ==
    ext_pc \in {"images", "annotations", "returned"} =>
        /\ Len(extracted_data) = ImagesBegun
        /\ ext_pc = "returned" => Len(extracted_data) = Len(data)
        /\ \A k \in 1..Len(extracted_data) :
              LET annotations == data[k][2]
                  n == AnnotationsSeen(k)
                  page == extracted_data[k][2]
              IN  /\ extracted_data[k][1] = data[k][1]
                  /\ page.texts = [i \in 1..n |->
                        [id |-> annotations[i].id, text |-> annotations[i].text]]
                  /\ page.labels = [i \in 1..n |->
                        [id |-> annotations[i].id, label |-> annotations[i].label]]
                  /\ page.relations = RelationsOf(LinkingEntries(annotations, n))

\* C13 witness: two images came out; one has an annotation whose linking holds
\* a malformed entry and then a list of two ids, and one relation
C13_Witness ==
    /\ ext_pc = "returned"
    /\ Len(extracted_data) = 2
    /\ \E k \in 1..2 :
          /\ Len(data[k][2]) = 1
          /\ "linking" \in DOMAIN data[k][2][1]
          /\ Len(data[k][2][1].linking) = 2
          /\ ~WellFormedLink(data[k][2][1].linking[1])
          /\ WellFormedLink(data[k][2][1].linking[2])
          /\ Len(extracted_data[k][2].relations) = 1
          /\ Len(extracted_data[k][2].texts) = 1

-----------------------------------------------------------------------------
(* Properties of resize_image *)

RszEnded == rsz_pc \in {"raised", "returned"}

\* the pasted region lies inside the canvas
BoxInsideCanvas ==
    /\ 0 <= padded_img.box[1] /\ padded_img.box[1] <= padded_img.box[3]
    /\ padded_img.box[3] <= padded_img.size[1]
    /\ 0 <= padded_img.box[2] /\ padded_img.box[2] <= padded_img.box[4]
    /\ padded_img.box[4] <= padded_img.size[2]

\* C14: for any source image and any canvas (W, H), resize_image returns an
\* image of size exactly (W, H) and never crops: new_width <= W,
\* new_height <= H, pad_x >= 0, pad_y >= 0, and the pasted region lies inside
\* the canvas.
C14_ResizeReturnsCanvas ==
    RszEnded =>
        /\ rsz_pc = "returned"
        /\ padded_img.size = <<target_width, target_height>>
        /\ new_width <= target_width /\ new_height <= target_height
        /\ pad_x >= 0 /\ pad_y >= 0
        /\ BoxInsideCanvas

\* the margins the pasted region leaves on the canvas
MarginLeft == padded_img.box[1]
MarginRight == padded_img.size[1] - padded_img.box[3]
MarginTop == padded_img.box[2]
MarginBottom == padded_img.size[2] - padded_img.box[4]

\* C19: the resized image is centered with floor division. pad_x is
\* (W - new_width) // 2 and pad_y is (H - new_height) // 2, so the right margin
\* minus the left margin and the bottom margin minus the top margin are each
\* 0 or 1: an odd leftover pixel goes to the right or the bottom.
C19_CenteredWithFloor ==
    rsz_pc = "returned" =>
        /\ 2 * pad_x <= target_width - new_width
        /\ target_width - new_width <= 2 * pad_x + 1
        /\ 2 * pad_y <= target_height - new_height
        /\ target_height - new_height <= 2 * pad_y + 1
        /\ MarginLeft = pad_x /\ MarginTop = pad_y
        /\ MarginRight - MarginLeft \in {0, 1}
        /\ MarginBottom - MarginTop \in {0, 1}

\* C19 witness: a returned image whose leftover height is odd, the extra pixel
\* below, and whose width is filled
C19_Witness ==
    /\ rsz_pc = "returned"
    /\ MarginBottom - MarginTop = 1
    /\ MarginTop >= 1
    /\ MarginLeft = 0 /\ MarginRight = 0

-----------------------------------------------------------------------------
(* Properties of the inference script *)

\* the command line is rejected: a required argument is missing, or the task
\* is docvqa and there is no question
UsageError ==
    \/ ~cli_args.required_given
    \/ cli_args.task_name = TaskDocvqa /\ cli_args.question \in {NoneVal, StrVal(<<>>)}

\* something fails while infer_single runs: the model, the image, the
\* inference, or the output file when one is asked for
RuntimeFailure ==
    \/ cli_env \in {"model", "image_missing", "image_open", "inference"}
    \/ /\ cli_args.output_path # NoneVal
       /\ cli_env = "write" \/ cli_args.output_path.dir = ""

\* C15 as stated: the process exits with code 1 on any failure (missing image,
\* docvqa without a question, model or output-file error) and with 0 otherwise.
C15_ExitOneOnAnyFailure ==
    cli_pc = "exited" =>
        exit_code = IF UsageError \/ RuntimeFailure THEN 1 ELSE 0

\* C15 amended: the process exits with code 2 when the command line is
\* rejected (a required argument missing, or docvqa without a question), with
\* code 1 when anything fails inside infer_single (model, missing image, image
\* file, inference, output file), and with 0 when infer_single returns.
C15_ExitCodes ==
    cli_pc = "exited" =>
        exit_code = IF UsageError THEN 2 ELSE IF RuntimeFailure THEN 1 ELSE 0

\* C15 witness: docvqa without a question, every required argument given and
\* nothing else failing: the process has exited with code 2
C15_Witness ==
    /\ cli_pc = "exited"
    /\ cli_args.required_given
    /\ cli_args.task_name = TaskDocvqa /\ cli_args.question = NoneVal
    /\ cli_env = "none"
    /\ exit_code = 2

\* C16: argument validation precedes all work. When the task is docvqa and no
\* question is given, the run fails before the model is loaded, before the
\* image is opened and before any inference: no work is ever done and the
\* process exits non-zero straight from the validation. For any other task a
\* missing question is never an error: the run goes past the validation, and
\* exits non-zero only if something else failed.
C16_ValidationBeforeWork ==
    /\ (cli_pc # "idle" /\ cli_args.task_name = TaskDocvqa
            /\ cli_args.question \in {NoneVal, StrVal(<<>>)}) =>
          /\ cli_trace = <<>> /\ cli_out = <<>>
          /\ cli_pc \in {"start", "validate", "exited"}
          /\ cli_pc = "exited" => exit_code # 0
    /\ (cli_pc # "idle" /\ cli_args.task_name # TaskDocvqa
            /\ cli_args.question \in {NoneVal, StrVal(<<>>)}) =>
          /\ (cli_args.required_given /\ cli_pc \notin {"start", "validate"}) =>
                (cli_pc # "exited" \/ cli_trace # <<>> \/ cli_env = "model")
          /\ (cli_pc = "exited" /\ exit_code # 0) =>
                (~cli_args.required_given \/ RuntimeFailure)

\* C16 witness: docvqa without a question has exited with no work done, in an
\* environment where the model could not have been loaded
C16_Witness ==
    /\ cli_pc = "exited"
    /\ cli_args.required_given
    /\ cli_args.task_name = TaskDocvqa /\ cli_args.question = StrVal(<<>>)
    /\ cli_env = "model"
    /\ cli_trace = <<>>
    /\ exit_code # 0

-----------------------------------------------------------------------------
(* Properties of the flattener *)

\* the c-th name tried for a key: the key itself, then key_1, key_2, ...
NameNo(key, c) ==
    IF c = 0 THEN key
    ELSE key \o <<"_", <<"1", "2", "3", "4", "5", "6", "7", "8", "9">>[c]>>

\* the pairs the loop has been through
PairsDone == IF flat_pc = "saved" THEN Len(flat_pairs) ELSE flat_i - 1

\* the names taken before pair k was inserted
TakenBefore(k) == {inserted_as[j] : j \in 1..(k - 1)}

\* C6: flattening never loses a pair. Each pair is inserted under the first
\* free name among key, key_1, key_2, ..., judged against the map built so far;
\* no pair overwrites an earlier one, so the map holds one entry per pair, in
\* order, with the pair's value; two pairs with key "Date" and values "2020",
\* "2021" give {"Date": "2020", "Date_1": "2021"}.
C6_NoPairLost ==
    flat_pc \in {"loop", "saved"} =>
        /\ Len(inserted_as) = PairsDone
        /\ Len(png_key_value_pairs) = PairsDone
        /\ \A k \in 1..PairsDone :
              /\ \E c \in 0..(k - 1) :
                    /\ inserted_as[k] = NameNo(flat_pairs[k].key, c)
                    /\ inserted_as[k] \notin TakenBefore(k)
                    /\ \A b \in 0..(c - 1) :
                          NameNo(flat_pairs[k].key, b) \in TakenBefore(k)
              /\ png_key_value_pairs[k] = <<inserted_as[k], flat_pairs[k].value>>
        /\ (/\ flat_pc = "saved"
            /\ flat_pairs = <<[key |-> KeyDate, value |-> <<"2", "0", "2", "0">>],
                              [key |-> KeyDate, value |-> <<"2", "0", "2", "1">>]>>)
             => png_key_value_pairs =
                   << <<KeyDate, <<"2", "0", "2", "0">> >>,
                      <<KeyDate1, <<"2", "0", "2", "1">> >> >>

\* C6 witness: pairs with keys "Date_1", "Date", "Date" were saved; the third
\* found "Date" and "Date_1" taken and went in as "Date_2"
C6_Witness ==
    /\ flat_pc = "saved"
    /\ Len(flat_pairs) = 3
    /\ flat_pairs[1].key = KeyDate1
    /\ flat_pairs[2].key = KeyDate
    /\ flat_pairs[3].key = KeyDate
    /\ inserted_as[3] = <<"D", "a", "t", "e", "_", "2">>
    /\ Len(png_key_value_pairs) = 3

-----------------------------------------------------------------------------
(* Pair typing against bucket membership *)

\* the ids listed in a bucket
IdsOf(bucket) == {bucket[k].id : k \in 1..Len(bucket)}

\* C22: pair typing agrees with bucket membership. Every emitted
\* question_answer pair has its key_id in the questions bucket and its
\* value_id in the answers bucket, and every emitted header_question pair has
\* its key_id in the headers bucket and its value_id in the questions bucket.
C22_PairsAgreeWithBuckets ==
    MapStarted =>
        \A k \in 1..Len(key_value_pairs) :
            LET pair == key_value_pairs[k]
            IN  /\ pair.type = "question_answer" =>
                      /\ pair.key_id \in IdsOf(questions)
                      /\ pair.value_id \in IdsOf(answers)
                /\ pair.type = "header_question" =>
                      /\ pair.key_id \in IdsOf(headers)
                      /\ pair.value_id \in IdsOf(questions)

-----------------------------------------------------------------------------
(* Properties of copy_images_to_splits *)

CopyStarted == copy_pc \in {"datasets", "lines", "returned"}

\* the lines of the metadata file of split d that parse and name an image
NamingLines(d) ==
    {k \in 1..Len(metadata[d].lines) :
        /\ "text" \notin DOMAIN metadata[d].lines[k]
        /\ "file_name" \in DOMAIN metadata[d].lines[k]}

\* what the loop must meet at line k of split d
ExpectedAt(d, k) ==
    IF k \notin NamingLines(d) THEN "error"
    ELSE LET state == images[metadata[d].lines[k].file_name]
         IN  CASE state = "absent" -> "not_found"
               [] state = "raises" -> "error"
               [] state = "image" -> "saved"

\* what the loops must meet in split d, in order
ExpectedOf(d) ==
    IF ~metadata[d].exists
    THEN <<[d |-> d, line |-> 0, met |-> "no_metadata"]>>
    ELSE [k \in 1..Len(metadata[d].lines) |->
             [d |-> d, line |-> k, met |-> ExpectedAt(d, k)]]

\* an image is in a split directory only if a line of that split's metadata
\* file names it and the source image exists
WrittenOnlyIfNamed ==
    \A d \in 1..3 :
        written[d] \subseteq
            {metadata[d].lines[k].file_name : k \in NamingLines(d)}
                \cap {i \in DOMAIN images : images[i] # "absent"}

\* whatever is skipped, the loops go on: every split and every line of every
\* metadata file is gone through, in order
SkipsGoOn ==
    /\ copy_pc \in {"datasets", "lines"} => ENABLED CopyNext
    /\ copy_pc = "returned" =>
          /\ copy_trace = ExpectedOf(1) \o ExpectedOf(2) \o ExpectedOf(3)
          /\ \A d \in 1..3 :
                written[d] = {metadata[d].lines[k].file_name :
                                 k \in {j \in NamingLines(d) : ExpectedAt(d, j) = "saved"}}

\* called after the metadata creation, no image is in two split directories
NoImageInTwoSplits ==
    pc = "done" =>
        \A d, e \in 1..3 : d # e => written[d] \cap written[e] = {}

\* C21: copy_images_to_splits writes an image into a split directory only if
\* that split's metadata.jsonl names it and the source image exists; a split
\* without metadata file, a line that fails to parse and a missing source
\* image are skipped and the remaining lines and splits are still processed;
\* run after the metadata creation, no image is written into more than one
\* split directory.
C21_CopyFollowsMetadata ==
    CopyStarted => (WrittenOnlyIfNamed /\ SkipsGoOn /\ NoImageInTwoSplits)

=============================================================================
